---- MODULE Spec2Model ----
(***************************************************************************)
(* Email-Agent: the Classification Engine (src/lib/classifier.ts) and the  *)
(* Pipeline Orchestrator (src/lib/agent-pipeline.ts, the agent run and     *)
(* cron routes, the override route) as state machines.                     *)
(*                                                                         *)
(* Conventions                                                             *)
(*   - confidences are percentages: 0.3 is 30, 0.9 is 90, 0.65 is 65;      *)
(*   - dates are whole days, Day(n) with n an integer offset from Now;     *)
(*     NoDate stands for null / undefined, Garbage for a string Date       *)
(*     cannot parse; Null is the null of strings;                          *)
(*   - an address is a record [local, domain]: local the tokens of the     *)
(*     part before "@" (maximal runs of word characters, and each other    *)
(*     character as a token of its own), domain the labels between dots;   *)
(*   - a subject is the sequence of its lower-cased tokens.                *)
(***************************************************************************)
EXTENDS Integers, Sequences, FiniteSets, TLC

Null == "null"

\* Date values: no date (null / undefined), a string Date cannot parse, a day
NoDate == [kind |-> "none"]
Garbage == [kind |-> "nan"]
Day(n) == [kind |-> "day", day |-> n]

(* ---------- small sequence helpers ---------- *)

Range(s) == {s[i] : i \in 1..Len(s)}

RECURSIVE SeqFilterMap(_, _, _)
\* [ f[x] : x in s, keep[x] ] in order; keep and f are functions on Range(s)
SeqFilterMap(s, keep, f) ==
  IF s = <<>> THEN <<>>
  ELSE (IF keep[Head(s)] THEN <<f[Head(s)]>> ELSE <<>>)
         \o SeqFilterMap(Tail(s), keep, f)

SeqFilter(s, keep) == SeqFilterMap(s, keep, [x \in Range(s) |-> x])
SeqMap(s, f) == SeqFilterMap(s, [x \in Range(s) |-> TRUE], f)

IsPrefix(p, s) == Len(p) <= Len(s) /\ SubSeq(s, 1, Len(p)) = p
IsSuffix(p, s) == Len(p) <= Len(s) /\ SubSeq(s, Len(s) - Len(p) + 1, Len(s)) = p
Contains(s, p) == \E i \in 1..(Len(s) - Len(p) + 1) : SubSeq(s, i, i + Len(p) - 1) = p

SeqsUpTo(S, n) == UNION {[1..k -> S] : k \in 0..n}

(* ---------- classifier.ts: constants ---------- *)

MAX_RETRIES == 3
RETRY_DELAY_MS == 1000
MAX_INPUT_CHARS_PER_BATCH == 50000
BASE_BATCH_SIZE == 12

ALLOWED_CATEGORIES ==
  {"approval", "reply-needed", "task", "meeting", "fyi", "personal", "support",
   "finance", "travel", "shipping", "security", "social", "notification",
   "newsletter", "marketing", "spam"}

\* CATEGORY_MAP without the 16 identity entries (those are ALLOWED_CATEGORIES)
CATEGORY_ALIASES ==
  [x \in {"reply_needed", "reply needed", "question", "request"} |-> "reply-needed"] @@
  [x \in {"action-required", "action_required", "assignment", "todo", "to-do"} |-> "task"] @@
  [x \in {"financial", "receipt", "invoice", "billing", "payment", "bank", "tax"} |-> "finance"] @@
  [x \in {"promotion", "promo", "offer", "deal", "sale"} |-> "marketing"] @@
  [x \in {"social-media", "linkedin", "twitter", "facebook", "instagram"} |-> "social"] @@
  [x \in {"delivery", "tracking", "order", "shipment"} |-> "shipping"] @@
  [x \in {"2fa", "mfa", "password", "login-alert", "verification"} |-> "security"] @@
  [x \in {"flight", "hotel", "booking", "itinerary", "trip", "reservation"} |-> "travel"] @@
  [x \in {"helpdesk", "ticket", "customer-service"} |-> "support"] @@
  [x \in {"calendar", "invitation"} |-> "meeting"] @@
  [x \in {"alert", "reminder", "automated", "system", "transactional"} |-> "notification"] @@
  [x \in {"update", "updates"} |-> "fyi"] @@
  [x \in {"digest", "subscription"} |-> "newsletter"]

\* raw.toLowerCase().trim() on the raw strings the model's LLM can emit
LowerTrim ==
  [x \in {"Task", " task ", "TODO", "Spam"} |->
     CASE x = "Task" -> "task" [] x = " task " -> "task"
       [] x = "TODO" -> "todo" [] x = "Spam" -> "spam"]

\* CATEGORY_MAP is an object literal: CATEGORY_MAP[key] also finds the lower-case
\* properties it inherits from Object.prototype, which are no strings
OBJECT_PROTOTYPE_KEYS == {"constructor", "__proto__"}

\* the inherited values, written as what console.log shows of them
Inherited(key) ==
  IF key = "constructor" THEN "[Function: Object]" ELSE "[Object: null prototype] {}"

NonStrings == {Inherited(k) : k \in OBJECT_PROTOTYPE_KEYS}

\* a lookup of own properties only
OwnProperty(lower) ==
  IF lower \in ALLOWED_CATEGORIES THEN lower
  ELSE IF lower \in DOMAIN CATEGORY_ALIASES THEN CATEGORY_ALIASES[lower]
  ELSE Null

\* CATEGORY_MAP[lower]: Null stands for undefined
CategoryMapLookup(lower) ==
  IF OwnProperty(lower) # Null THEN OwnProperty(lower)
  ELSE IF lower \in OBJECT_PROTOTYPE_KEYS THEN Inherited(lower)
  ELSE Null

normalizeCategory(raw) ==
  LET lower == IF raw \in DOMAIN LowerTrim THEN LowerTrim[raw] ELSE raw
      found == CategoryMapLookup(lower)
  IN  IF found = Null THEN "fyi" ELSE found

(* ---------- classifier.ts: date validation ---------- *)

Now == 0
ONE_YEAR_DAYS == 365
SEVEN_DAYS == 7

validateDateString(dateStr, emailReceivedAt) ==
  IF dateStr = NoDate THEN NoDate
  ELSE IF dateStr = Garbage THEN NoDate
  ELSE IF dateStr.day > Now + ONE_YEAR_DAYS THEN NoDate
  ELSE IF emailReceivedAt # NoDate /\ dateStr.day < emailReceivedAt.day - SEVEN_DAYS THEN NoDate
  ELSE dateStr

\* What the LLM may put in actionItems: something that is no array, or an array of
\* strings, of objects with a description (and maybe a dueDate), and of anything else
NotArray == [kind |-> "not-array"]
StringItem == [kind |-> "string", description |-> "call back"]
ObjectItem(dueDate) == [kind |-> "object", description |-> "send report", dueDate |-> dueDate]
OtherItem == [kind |-> "other", description |-> "42"]

ArrayOf(elements) == [kind |-> "array", elements |-> elements]

normalizeActionItems(items) ==
  IF items.kind # "array" THEN <<>>
  ELSE [i \in 1..Len(items.elements) |->
          LET item == items.elements[i]
          IN  IF item.kind = "string"
                THEN [description |-> item.description, dueDate |-> NoDate]
              ELSE IF item.kind = "object"
                THEN [description |-> item.description,
                      dueDate |-> validateDateString(item.dueDate, NoDate)]
              ELSE [description |-> item.description, dueDate |-> NoDate]]

\* the dates of a result of classifyBatch: c is the LLM's classification,
\* receivedAt the receipt time of the email with c's id
classificationDates(c, receivedAt) ==
  [deadline |-> validateDateString(c.deadline, receivedAt),
   actionItems |-> normalizeActionItems(c.actionItems)]

(* ---------- classifier.ts: automated-sender post-processing ---------- *)

NOREPLY_LOCAL_PARTS ==
  {<<"noreply">>, <<"no", "-", "reply">>, <<"do", "-", "not", "-", "reply">>,
   <<"donotreply">>, <<"mailer", "-", "daemon">>, <<"postmaster">>, <<"bounce">>,
   <<"invitations">>, <<"notifications">>, <<"notification">>, <<"alerts">>,
   <<"alert">>, <<"digest">>, <<"newsletter">>, <<"marketing">>, <<"promo">>,
   <<"automated">>, <<"auto">>, <<"unsubscribe">>,
   <<"marketplace", "-", "messages">>}

AUTOMATED_DOMAINS ==
  {<<"amazonses", "com">>, <<"sendgrid", "net">>, <<"mailchimp", "com">>,
   <<"constantcontact", "com">>, <<"mandrillapp", "com">>, <<"mailgun", "org">>}

NOREPLY_KEYWORDS ==
  {<<"noreply">>, <<"no", "-", "reply">>, <<"donotreply">>,
   <<"do", "-", "not", "-", "reply">>}

\* An address without "@" is modelled as domain = Null.
isNoreplySender(from) ==
  IF from.domain = Null THEN FALSE
  ELSE \/ \E d \in AUTOMATED_DOMAINS : IsSuffix(d, from.domain)
       \/ \E p \in NOREPLY_LOCAL_PARTS :
            \/ from.local = p
            \/ IsPrefix(p \o <<"+">>, from.local)
            \/ IsPrefix(p \o <<".">>, from.local)
       \/ \E k \in NOREPLY_KEYWORDS : Contains(from.local, k)

isInternalSender(from, companyDomains) ==
  /\ from.domain # Null
  /\ \E d \in companyDomains : IsSuffix(d, from.domain)

\* post-processing that leaves the flags as the model set them
postProcessClassificationKeepFlags(result, sender, companyDomains) == result

postProcessClassification(result, sender, companyDomains) ==
  IF companyDomains # {} /\ isInternalSender(sender, companyDomains) THEN result
  ELSE IF ~isNoreplySender(sender) THEN result
  ELSE [result EXCEPT !.classification.needsReply = FALSE,
                       !.classification.needsApproval = FALSE]

(* ---------- classifier.ts: rule-based fallback ---------- *)

RULES_CONFIDENCE == 30

HasToken(tokens, words) == \E i \in 1..Len(tokens) : tokens[i] \in words

NonWordChars == {" ", "-", ".", "+", ":"}

\* /\b(password|verification|2fa|security|login|sign.?in|authenticate)\b/
SecuritySubject(subject) ==
  \/ HasToken(subject, {"password", "verification", "2fa", "security", "login",
                        "signin", "authenticate"})
  \/ \E i \in 1..(Len(subject) - 2) :
       subject[i] = "sign" /\ subject[i + 1] \in NonWordChars /\ subject[i + 2] = "in"

classifyWithRules(email) ==
  LET isNoreply == isNoreplySender(email.from)
      isStarred == "STARRED" \in email.labels \/ "IMPORTANT" \in email.labels
      base ==
        IF email.isMailingList /\ isNoreply
          THEN [category |-> "newsletter", priority |-> 5, needsReply |-> FALSE]
        ELSE IF isNoreply /\ HasToken(email.subject,
                 {"order", "shipped", "delivered", "tracking", "shipment", "package"})
          THEN [category |-> "shipping", priority |-> 4, needsReply |-> FALSE]
        ELSE IF isNoreply /\ HasToken(email.subject,
                 {"receipt", "payment", "invoice", "bill", "statement", "transaction", "refund"})
          THEN [category |-> "finance", priority |-> 4, needsReply |-> FALSE]
        ELSE IF isNoreply /\ SecuritySubject(email.subject)
          THEN [category |-> "security", priority |-> 4, needsReply |-> FALSE]
        ELSE IF email.icsAttachment
          THEN [category |-> "meeting", priority |-> 3, needsReply |-> FALSE]
        ELSE IF email.isMailingList
          THEN [category |-> "newsletter", priority |-> 4, needsReply |-> FALSE]
        ELSE IF isNoreply
          THEN [category |-> "notification", priority |-> 4, needsReply |-> FALSE]
        ELSE IF HasToken(email.from.local, {"linkedin", "twitter", "facebook", "instagram"})
                \/ (email.from.domain # Null /\
                    HasToken(email.from.domain, {"linkedin", "twitter", "facebook", "instagram"}))
          THEN [category |-> "social", priority |-> 4, needsReply |-> FALSE]
        ELSE IF IsPrefix(<<"re", ":">>, email.subject) /\ ~isNoreply
          THEN [category |-> "reply-needed", priority |-> 3, needsReply |-> TRUE]
        ELSE IF IsPrefix(<<"fwd", ":">>, email.subject)
                \/ IsPrefix(<<"fw", ":">>, email.subject)
          THEN [category |-> "fyi", priority |-> 3, needsReply |-> FALSE]
        ELSE [category |-> "fyi", priority |-> 4, needsReply |-> FALSE]
  IN  [priority |-> IF isStarred /\ base.priority > 2 THEN 2 ELSE base.priority,
       category |-> base.category,
       needsReply |-> base.needsReply,
       needsApproval |-> FALSE,
       deadline |-> NoDate,
       confidence |-> RULES_CONFIDENCE]

RulesFallback(batch) ==
  [kind |-> "return",
   value |-> SeqMap(batch, [e \in Range(batch) |->
               [emailId |-> e.emailId, classification |-> classifyWithRules(e)]])]

(* ---------- classifier.ts: adaptive batching ---------- *)

PREVIEW_BUDGET == 1800
FULL_BUDGET == 3000

Min(a, b) == IF a < b THEN a ELSE b
Max(a, b) == IF a > b THEN a ELSE b

\* Length of formatEmailForClassification's text: the headers and signals, plus
\* the prepared body, which prepareEmailContent cuts to its budget.
FormattedChars(email, includeBody) ==
  email.headerChars + Min(email.bodyChars, IF includeBody THEN FULL_BUDGET ELSE PREVIEW_BUDGET)

RECURSIVE SplitFrom(_, _, _, _, _)
SplitFrom(rest, includeBody, done, currentBatch, currentChars) ==
  IF rest = <<>>
    THEN IF Len(currentBatch) > 0 THEN Append(done, currentBatch) ELSE done
  ELSE
    LET email == Head(rest)
        emailChars == FormattedChars(email, includeBody)
        flush == Len(currentBatch) > 0 /\
                 (currentChars + emailChars > MAX_INPUT_CHARS_PER_BATCH \/
                  Len(currentBatch) >= BASE_BATCH_SIZE)
    IN  IF flush
          THEN SplitFrom(Tail(rest), includeBody, Append(done, currentBatch),
                         <<email>>, emailChars)
          ELSE SplitFrom(Tail(rest), includeBody, done,
                         Append(currentBatch, email), currentChars + emailChars)

splitIntoBatches(emailSeq, includeBody) == SplitFrom(emailSeq, includeBody, <<>>, <<>>, 0)

(* ---------- classifier.ts: second-pass decision ---------- *)

CONFIDENCE_THRESHOLDS ==
  [c \in {"spam", "newsletter", "marketing", "social", "shipping", "notification"} |-> 60] @@
  [c \in {"meeting", "travel"} |-> 65] @@
  [c \in {"finance", "security", "personal", "support"} |-> 70] @@
  [c \in {"fyi", "task"} |-> 75] @@
  [c \in {"reply-needed", "approval"} |-> 80]

\* no category is high-stakes
NoHighStakes == {}

HIGH_STAKES_CATEGORIES == {"approval", "reply-needed", "task"}
HIGH_STAKES_CONFIDENCE == 90
DEFAULT_THRESHOLD == 70

\* confidenceOverrides is a function from some categories to thresholds (<<>> for
\* undefined); originalEmail is NoEmail when the result's id is not of the batch.
\* A text is its length in characters and the position at which its first
\* date-like phrase (a match of one of DEADLINE_PATTERNS) ends, 0 if it has none
TextOf(chars, dateAt) == [chars |-> chars, dateAt |-> dateAt]

SCAN_LIMIT == 3000

\* the matches in text.slice(0, 3000)
extractDatesFromText(text) ==
  IF text.dateAt > 0 /\ text.dateAt <= Min(text.chars, SCAN_LIMIT) THEN {"date"} ELSE {}

\* the body text alone
textForDatesBodyOnly(email) == TextOf(email.bodyChars, email.bodyDateAt)

\* originalEmail.bodyText || originalEmail.snippet || ""
textForDates(email) ==
  IF email.bodyChars > 0 THEN TextOf(email.bodyChars, email.bodyDateAt)
  ELSE IF email.snippetChars > 0 THEN TextOf(email.snippetChars, email.snippetDateAt)
  ELSE TextOf(0, 0)

needsReclassification(result, confidenceOverrides, originalEmail) ==
  LET category == result.classification.category
      confidence == result.classification.confidence
      threshold ==
        IF category \in DOMAIN confidenceOverrides THEN confidenceOverrides[category]
        ELSE IF category \in DOMAIN CONFIDENCE_THRESHOLDS THEN CONFIDENCE_THRESHOLDS[category]
        ELSE DEFAULT_THRESHOLD
  IN  IF category \in HIGH_STAKES_CATEGORIES /\ confidence < HIGH_STAKES_CONFIDENCE THEN TRUE
      ELSE IF result.classification.deadline = NoDate /\ originalEmail.emailId # Null
              /\ extractDatesFromText(textForDates(originalEmail)) # {} THEN TRUE
      ELSE confidence < threshold

(* ======================================================================= *)
(* classifyEmails / classifyBatch as a state machine.  A step is one LLM   *)
(* request resolving (the only suspension point of classifyBatch besides   *)
(* sleep), followed by everything the code does up to the next request.    *)
(* ======================================================================= *)

VARIABLES
  emails,         \* classifyEmails' argument
  options,        \* ClassifyOptions: companyDomains, confidenceOverrides
  batches,        \* splitIntoBatches(emails, false)
  batchIdx,       \* index of the first-pass batch in progress (1-based)
  pc,             \* "first": a first-pass classifyBatch is running, "second", "done"
  call,           \* the running classifyBatch call: its emails, includeBody, attempt, outcomes, waits
  lastCall,       \* the classifyBatch call that returned last, with what it returned
  lowConfidence,  \* first-pass results flagged for the second pass
  reBatches,      \* splitIntoBatches(lowConfEmails, true)
  reIdx,
  results,
  errors

classifierVars ==
  <<emails, options, batches, batchIdx, pc, call, lastCall, lowConfidence,
    reBatches, reIdx, results, errors>>

(* ---------- state of the Pipeline Orchestrator ---------- *)

VARIABLES
  clock,           \* Date.now(), in minutes
  mailbox,         \* Mail Source: the messages no sync has fetched yet
  emailDb,         \* Store: the ids of the Email rows
  classification,  \* Store: the Classification row of each email, if any
  history,         \* Store: the ClassificationHistory rows
  agentRuns,       \* Store: the AgentRun rows
  senderProfile,   \* Store: totalEmails of the SenderProfile row of each sender (0: no row)
  proc,            \* each runAgentPipeline call: its position and its locals
  trig             \* the POST /api/agent/run request in progress

pipelineVars ==
  <<clock, mailbox, emailDb, classification, history, senderProfile, agentRuns, proc, trig>>

(* ---------- a call of one of the pure functions ---------- *)

VARIABLES
  fnArgs,          \* the arguments of the call
  fnResult         \* what it returned, once it has

pureVars == <<fnArgs, fnResult>>

NoArg == [fn |-> Null]
NoRet == [kind |-> "none"]
Returned(v) == [kind |-> "return", value |-> v]

PureIdle == fnArgs = NoArg /\ fnResult = NoRet

(* ---------- state of the Mail Source sync of one account ---------- *)

VARIABLES
  source,          \* Mail Source: the messages the provider holds are 1..source
  account,         \* Store: the EmailAccount row
  emailRows,       \* Store: the externalIds of the account's Email rows
  syncCall         \* the running syncEmailAccount call: its position and its locals

syncVars == <<source, account, emailRows, syncCall>>

vars == <<classifierVars, pipelineVars, pureVars, syncVars>>

(* ---------- inputs ---------- *)

MaxEmails == 2      \* emails per classifyEmails call
MaxResponse == 2    \* classifications in one LLM response

UnknownId == "zz"

Addr(local, domain) == [local |-> local, domain |-> domain]

EmailPool ==
  << [emailId |-> "e1", from |-> Addr(<<"ann">>, <<"corp", "com">>),
      subject |-> <<"re", ":", " ", "budget">>, labels |-> {}, isMailingList |-> FALSE,
      icsAttachment |-> FALSE, receivedAt |-> Day(-1), headerChars |-> 30000,
      bodyChars |-> 2500, bodyDateAt |-> 0, snippetChars |-> 100, snippetDateAt |-> 0],
     [emailId |-> "e2", from |-> Addr(<<"noreply">>, <<"shop", "com">>),
      subject |-> <<"your", " ", "order", " ", "shipped">>, labels |-> {"STARRED"},
      isMailingList |-> FALSE, icsAttachment |-> FALSE, receivedAt |-> Day(-2),
      headerChars |-> 18000, bodyChars |-> 400, bodyDateAt |-> 120,
      snippetChars |-> 100, snippetDateAt |-> 0],
     [emailId |-> "e3", from |-> Addr(<<"news">>, <<"list", "org">>),
      subject |-> <<"weekly", " ", "digest">>, labels |-> {}, isMailingList |-> TRUE,
      icsAttachment |-> FALSE, receivedAt |-> Day(-3), headerChars |-> 600,
      bodyChars |-> 5000, bodyDateAt |-> 4000, snippetChars |-> 100, snippetDateAt |-> 0] >>

\* classifyEmails' inputs: the non-empty subsequences of the pool, so the ids
\* are pairwise distinct
EmailInputs ==
  {s \in UNION {[1..k -> Range(EmailPool)] : k \in 1..MaxEmails} :
     \E idx \in [1..Len(s) -> 1..Len(EmailPool)] :
        /\ \A i \in 1..Len(s) : s[i] = EmailPool[idx[i]]
        /\ \A i, j \in 1..Len(s) : i < j => idx[i] < idx[j]}

ClassifyOptionsPool ==
  {[companyDomains |-> {<<"corp", "com">>}, confidenceOverrides |-> <<>>]}

\* What the LLM puts in one classification, besides the echoed id
LLMShapes ==
  {[priority |-> 2, category |-> "TODO", needsReply |-> TRUE, needsApproval |-> TRUE,
    deadline |-> NoDate, confidence |-> 70],
   [priority |-> 5, category |-> "spam", needsReply |-> TRUE, needsApproval |-> FALSE,
    deadline |-> Day(3), confidence |-> 95]}

Ids(emailSeq) == {emailSeq[i].emailId : i \in 1..Len(emailSeq)}

\* The well-formed responses (BatchResponseSchema accepts them): any sequence of
\* classifications, each echoing an id of the batch or an id of its own making.
LLMResponses(batch) ==
  SeqsUpTo({[emailId |-> id, raw |-> sh] : id \in Ids(batch) \cup {UnknownId}, sh \in LLMShapes},
           MaxResponse)

\* The failures of an attempt other than a 429: all of them are thrown inside
\* the try block and take the same branch of the catch block
FailureKinds == {"api_error", "empty_output", "parse_error", "schema_error"}

(* ---------- classifyBatch ---------- *)

NoEmail == [emailId |-> Null]

\* new Map(batch.map((e) => [e.emailId, e])).get(id)
EmailOf(batch, id) ==
  IF id \in Ids(batch) THEN CHOOSE e \in Range(batch) : e.emailId = id ELSE NoEmail

\* classifyBatch's success path: validated.classifications.map(...)
MapResponse(batch, resp, opts) ==
  SeqMap(resp, [c \in Range(resp) |->
    LET e == EmailOf(batch, c.emailId)
        receivedAt == IF e.emailId = Null THEN NoDate ELSE e.receivedAt
        result == [emailId |-> c.emailId,
                   classification |->
                     [priority |-> c.raw.priority,
                      category |-> normalizeCategory(c.raw.category),
                      needsReply |-> c.raw.needsReply,
                      needsApproval |-> c.raw.needsApproval,
                      deadline |-> validateDateString(c.raw.deadline, receivedAt),
                      confidence |-> c.raw.confidence]]
    IN  IF e.emailId = Null THEN result
        ELSE postProcessClassification(result, e.from, opts.companyDomains)])

RECURSIVE Pow2(_)
Pow2(n) == IF n = 0 THEN 1 ELSE 2 * Pow2(n - 1)

\* sleep(RETRY_DELAY_MS * Math.pow(2, attempt)) of the 429 branch
RateLimitDelay(attempt) == RETRY_DELAY_MS * Pow2(attempt)

\* A 429 that does not use up an attempt
AttemptAfterRateLimitFree(attempt) == attempt

\* The loop variable after the 429 branch's `continue` (the for loop's attempt++)
AttemptAfterRateLimit(attempt) == attempt + 1

\* A last attempt that rethrows instead of falling back
OnFinalFailureThrows(batch) == [kind |-> "throw", value |-> <<>>]

\* The catch block's last-attempt branch: what classifyBatch does with the batch
\* when the attempt that failed was the last one
OnFinalFailure(batch) == RulesFallback(batch)

\* The statements after the for loop
AfterLoop(batch) == RulesFallback(batch)

NewCall(batch, includeBody) ==
  [emails |-> batch, includeBody |-> includeBody, attempt |-> 0,
   outcomes |-> <<>>, waits |-> <<>>]

NoCall == [emails |-> <<>>, includeBody |-> FALSE, attempt |-> 0,
           outcomes |-> <<>>, waits |-> <<>>]

Finished(c, outcome, wait, ret) ==
  [emails |-> c.emails, includeBody |-> c.includeBody,
   outcomes |-> Append(c.outcomes, outcome), waits |-> Append(c.waits, wait),
   returned |-> ret]

NoLastCall ==
  [emails |-> <<>>, includeBody |-> FALSE, outcomes |-> <<>>, waits |-> <<>>,
   returned |-> [kind |-> "none", value |-> <<>>]]

(* ---------- classifyEmails ---------- *)

\* The next iteration of the batch loop, or the return of classifyEmails
AdvanceBatch ==
  /\ lowConfidence' = <<>>
  /\ reBatches' = <<>>
  /\ reIdx' = 0
  /\ IF batchIdx < Len(batches)
       THEN /\ pc' = "first"
            /\ batchIdx' = batchIdx + 1
            /\ call' = NewCall(batches[batchIdx + 1], FALSE)
       ELSE /\ pc' = "done"
            /\ batchIdx' = batchIdx
            /\ call' = NoCall

BatchErrors(batch) ==
  SeqMap(batch, [e \in Range(batch) |-> [emailId |-> e.emailId, error |-> "Classification failed"]])

\* What classifyEmails does when the first-pass classifyBatch(batch, false) settles
AfterFirstPass(ret) ==
  IF ret.kind = "throw"
    THEN /\ errors' = errors \o BatchErrors(call.emails)
         /\ results' = results
         /\ AdvanceBatch
  ELSE
    LET batchResults == ret.value
        flagged == [r \in Range(batchResults) |->
                      needsReclassification(r, options.confidenceOverrides,
                                            EmailOf(call.emails, r.emailId))]
        low == SeqFilter(batchResults, flagged)
        high == SeqFilter(batchResults, [r \in Range(batchResults) |-> ~flagged[r]])
        lowConfEmailIds == {low[i].emailId : i \in 1..Len(low)}
        lowConfEmails == SeqFilter(call.emails,
                           [e \in Range(call.emails) |-> e.emailId \in lowConfEmailIds])
        reB == splitIntoBatches(lowConfEmails, TRUE)
    IN  /\ errors' = errors
        /\ results' = results \o high
        /\ IF Len(low) > 0 /\ Len(reB) > 0
             THEN /\ pc' = "second"
                  /\ lowConfidence' = low
                  /\ reBatches' = reB
                  /\ reIdx' = 1
                  /\ batchIdx' = batchIdx
                  /\ call' = NewCall(reB[1], TRUE)
             ELSE AdvanceBatch

\* ... and when a second-pass classifyBatch(reBatch, true) settles
AfterSecondPass(ret) ==
  /\ errors' = errors
  /\ IF ret.kind = "throw"
       THEN /\ results' = results \o lowConfidence
            /\ AdvanceBatch
       ELSE /\ results' = results \o ret.value
            /\ IF reIdx < Len(reBatches)
                 THEN /\ reIdx' = reIdx + 1
                      /\ call' = NewCall(reBatches[reIdx + 1], TRUE)
                      /\ UNCHANGED <<pc, batchIdx, lowConfidence, reBatches>>
                 ELSE AdvanceBatch

ClassifyBatchSettles(ret, outcome, wait) ==
  /\ lastCall' = Finished(call, outcome, wait, ret)
  /\ IF pc = "first" THEN AfterFirstPass(ret) ELSE AfterSecondPass(ret)
  /\ UNCHANGED <<emails, options, batches, pipelineVars, syncVars, pureVars>>

ClassifyBatchRetries(nextAttempt, outcome, wait) ==
  /\ call' = [call EXCEPT !.attempt = nextAttempt,
                          !.outcomes = Append(@, outcome),
                          !.waits = Append(@, wait)]
  /\ UNCHANGED <<emails, options, batches, batchIdx, pc, lastCall, lowConfidence,
                 reBatches, reIdx, results, errors, pipelineVars, syncVars, pureVars>>

\* The request returns a response that parses and passes the schema
LLMResponds ==
  /\ pc \in {"first", "second"}
  /\ \E resp \in LLMResponses(call.emails) :
       ClassifyBatchSettles([kind |-> "return",
                             value |-> MapResponse(call.emails, resp, options)], "ok", 0)

\* The request fails with OpenAI.APIError, status 429
LLMRateLimited ==
  /\ pc \in {"first", "second"}
  /\ LET wait == RateLimitDelay(call.attempt)
         next == AttemptAfterRateLimit(call.attempt)
     IN  IF next < MAX_RETRIES
           THEN ClassifyBatchRetries(next, "429", wait)
           ELSE ClassifyBatchSettles(AfterLoop(call.emails), "429", wait)

\* The request fails otherwise, or its output is empty, is no JSON, or fails the schema
LLMFails ==
  /\ pc \in {"first", "second"}
  /\ \E kind \in FailureKinds :
       IF call.attempt = MAX_RETRIES - 1
         THEN ClassifyBatchSettles(OnFinalFailure(call.emails), "error", 0)
         ELSE ClassifyBatchRetries(call.attempt + 1, "error", RETRY_DELAY_MS)

(* ======================================================================= *)
(* The Pipeline Orchestrator: runAgentPipeline, the agent-run route, the   *)
(* cron route and the override route over one user's part of the Store.    *)
(*                                                                         *)
(* Conventions                                                             *)
(*   - a sender address and a glob are sequences of characters;            *)
(*   - the clock counts minutes;                                           *)
(*   - None / Some(v) stand for a nullable column of a rule.               *)
(* ======================================================================= *)

None == [kind |-> "none"]
Some(v) == [kind |-> "some", v |-> v]
OrElse(o, d) == IF o.kind = "none" THEN d ELSE o.v

(* ---------- agent-pipeline.ts: user rule matching ---------- *)

\* String.prototype.toLowerCase on the alphabet the model's addresses use
Lower(c) == IF c = "A" THEN "a" ELSE IF c = "C" THEN "c" ELSE c

toLowerCase(s) == [i \in 1..Len(s) |-> Lower(s[i])]

\* new RegExp("^" + escaped + "$").test(v): "*" became ".*", "?" became ".",
\* every other character is escaped and stands for itself
RECURSIVE GlobTest(_, _)
GlobTest(p, v) ==
  IF p = <<>> THEN v = <<>>
  ELSE IF Head(p) = "*"
    THEN GlobTest(Tail(p), v) \/ (v # <<>> /\ GlobTest(p, Tail(v)))
    ELSE /\ v # <<>>
         /\ Head(p) = "?" \/ Head(p) = Head(v)
         /\ GlobTest(Tail(p), Tail(v))

matchGlobPattern(pattern, value) == GlobTest(toLowerCase(pattern), toLowerCase(value))

NoRule == [ruleId |-> Null]

\* rule.isMailingList / rule.hasAttachments are "null", "true" or "false"
TriOf(b) == IF b THEN "true" ELSE "false"

RuleMatches(rule, email) ==
  /\ ~(rule.senderPattern # <<>> /\ ~matchGlobPattern(rule.senderPattern, email.from))
  /\ ~(rule.subjectPattern # <<>> /\ ~Contains(email.subject, rule.subjectPattern))
  /\ ~(rule.isMailingList # "null" /\ rule.isMailingList # TriOf(email.isMailingList))
  /\ ~(rule.hasAttachments # "null" /\ rule.hasAttachments # TriOf(email.hasAttachments))

RECURSIVE matchUserRules(_, _)
matchUserRules(email, rules) ==
  IF rules = <<>> THEN NoRule
  ELSE IF RuleMatches(Head(rules), email)
    THEN [ruleId |-> Head(rules).id, category |-> Head(rules).category,
          priority |-> Head(rules).priority, needsReply |-> Head(rules).needsReply,
          autoHandle |-> Head(rules).autoHandle]
    ELSE matchUserRules(email, Tail(rules))

(* ---------- priority.ts: thread resolution ---------- *)

\* RESOLUTION_RE, on the lower-cased tokens of subject and snippet
RESOLUTION_WORDS ==
  {"resolved", "done", "approved", "cancelled", "withdrawn", "closed",
   "completed", "sorted", "fixed", "handled"}

RESOLUTION_PHRASES ==
  {<<"never", " ", "mind">>, <<"taken", " ", "care", " ", "of">>, <<"all", " ", "set">>,
   <<"no", " ", "longer", " ", "needed">>}

detectResolution(subject, snippet) ==
  LET text == subject \o <<" ">> \o snippet
  IN  \/ HasToken(text, RESOLUTION_WORDS)
      \/ \E p \in RESOLUTION_PHRASES : Contains(text, p)

(* ---------- the user's mail ---------- *)

Accounts == {"acct1", "acct2"}

NoThread == "nothread"

\* The user's active rules, oldest first: one rule whose only condition is a
\* sender glob
userRules ==
  <<[id |-> "r1", senderPattern |-> <<"*", "@", "b">>, subjectPattern |-> <<>>,
     isMailingList |-> "null", hasAttachments |-> "null",
     category |-> Some("finance"), priority |-> Some(2),
     needsReply |-> None, autoHandle |-> None]>>

\* m1..m4 form one thread at account acct1; m5 is a lone message at acct2.
\* m1 and m2 are from a sender the rule matches.
Mail ==
  [id \in {"m1", "m2", "m3", "m4", "m5"} |->
     [id |-> id,
      accountId |-> IF id = "m5" THEN "acct2" ELSE "acct1",
      threadId |-> IF id = "m5" THEN NoThread ELSE "t1",
      from |-> IF id = "m1" THEN <<"A", "@", "b">>
               ELSE IF id = "m2" THEN <<"a", "@", "b">>
               ELSE <<"c", "@", "d">>,
      subject |-> IF id = "m1" THEN <<"invoice">> ELSE <<"re", ":", " ", "invoice">>,
      snippet |-> <<"see", " ", "attached">>,
      isMailingList |-> FALSE,
      hasAttachments |-> (id = "m1"),
      receivedAt |-> CASE id = "m1" -> 1 [] id = "m2" -> 2 [] id = "m3" -> 3
                       [] id = "m4" -> 4 [] OTHER -> 5]]

MailIds == DOMAIN Mail

\* the `from` addresses, the keys of the SenderProfile rows
Senders == {Mail[id].from : id \in MailIds}

\* a set of stored emails in the order of `orderBy: { receivedAt: "desc" }`
RECURSIVE NewestFirst(_)
NewestFirst(ids) ==
  IF ids = {} THEN <<>>
  ELSE LET top == CHOOSE x \in ids : \A y \in ids : Mail[y].receivedAt <= Mail[x].receivedAt
       IN  <<top>> \o NewestFirst(ids \ {top})

MaxRuns == 2        \* AgentRun rows the triggers may create
MaxClock == 20      \* minutes the clock runs
TickMinutes == 10   \* minutes between two observations of the clock
MaxResults == 2     \* results one classifyEmails call returns

RunIds == 1..MaxRuns
NoRunId == 0

STALE_MINUTES == 10

NoAgentRun == [status |-> "none", trigger |-> Null, startedAt |-> 0, errorMessage |-> Null]

NoClassification ==
  [exists |-> FALSE, priority |-> 0, category |-> Null, classifierVersion |-> Null,
   userOverride |-> FALSE, handled |-> FALSE, threadResolved |-> FALSE]

NotStarted ==
  [pc |-> "idle", syncErrors |-> 0, unclassified |-> <<>>, threadEmails |-> {},
   inputs |-> <<>>, ruleMatched |-> <<>>, ruleStored |-> 0, results |-> <<>>,
   overrideSet |-> {}, idx |-> 0, stored |-> 0, staleInputs |-> <<>>,
   llmSent |-> {}, thrown |-> FALSE]

NoRequest == [pc |-> "idle", existingRun |-> NoRunId, response |-> [runId |-> NoRunId, message |-> Null]]

Running == {r \in RunIds : agentRuns[r].status = "running"}

FreeRunIds == {r \in RunIds : agentRuns[r].status = "none"}

\* the id prisma.agentRun.create gives the new row
NewRunId == CHOOSE r \in FreeRunIds : \A q \in FreeRunIds : r <= q

CreateRun(r, trigger) ==
  agentRuns' = [agentRuns EXCEPT ![r] =
                  [status |-> "running", trigger |-> trigger, startedAt |-> clock,
                   errorMessage |-> Null]]

\* runAgentPipeline is called and runs up to its first await inside the try
StartPipeline(r) == proc' = [proc EXCEPT ![r].pc = "sync"]

(* ---------- time ---------- *)

\* Time is observed only as the age of a running run
Tick ==
  /\ Running # {}
  /\ clock + TickMinutes <= MaxClock
  /\ clock' = clock + TickMinutes
  /\ UNCHANGED <<senderProfile, syncVars, pureVars, classifierVars, mailbox, emailDb, classification, history, agentRuns, proc, trig>>

(* ---------- POST /api/cron/sync, for this user ---------- *)

\* runAgentPipeline(user.id, "cron") creates the run itself
CronTrigger ==
  /\ FreeRunIds # {}
  /\ CreateRun(NewRunId, "cron")
  /\ StartPipeline(NewRunId)
  /\ UNCHANGED <<senderProfile, syncVars, pureVars, classifierVars, clock, mailbox, emailDb, classification, history, trig>>

(* ---------- POST /api/agent/run ---------- *)

\* findFirst({status: "running"}) has no orderBy: any running run may be the
\* one it returns.  A fresh run ends the request.
ManualFind ==
  /\ trig.pc = "idle"
  /\ IF Running = {}
       THEN trig' = [NoRequest EXCEPT !.pc = "create"]
       ELSE \E existingRun \in Running :
              LET ageMs == clock - agentRuns[existingRun].startedAt
              IN  IF ageMs > STALE_MINUTES
                    THEN trig' = [NoRequest EXCEPT !.pc = "failStale",
                                                   !.existingRun = existingRun]
                    ELSE trig' = [NoRequest EXCEPT
                                    !.existingRun = existingRun,
                                    !.response = [runId |-> existingRun,
                                                  message |-> "A run is already in progress"]]
  /\ UNCHANGED <<senderProfile, syncVars, pureVars, classifierVars, clock, mailbox, emailDb, classification, history, agentRuns, proc>>

\* the update that auto-fails the run found stuck
ManualFailStale ==
  /\ trig.pc = "failStale"
  /\ agentRuns' = [agentRuns EXCEPT
                     ![trig.existingRun].status = "failed",
                     ![trig.existingRun].errorMessage = "Run timed out (exceeded 10 minutes)"]
  /\ trig' = [trig EXCEPT !.pc = "create"]
  /\ UNCHANGED <<senderProfile, syncVars, pureVars, classifierVars, clock, mailbox, emailDb, classification, history, proc>>

\* create the run, start the pipeline in the background, answer with the new id
ManualCreate ==
  /\ trig.pc = "create"
  /\ FreeRunIds # {}
  /\ CreateRun(NewRunId, "manual")
  /\ StartPipeline(NewRunId)
  /\ trig' = [trig EXCEPT !.pc = "idle",
                          !.response = [runId |-> NewRunId, message |-> "started"]]
  /\ UNCHANGED <<senderProfile, syncVars, pureVars, classifierVars, clock, mailbox, emailDb, classification, history>>

(* ---------- PATCH /api/emails/[id]/classify: the user's correction ---------- *)

UserChoice == [priority |-> 1, category |-> "approval"]

UserOverride(id) ==
  /\ id \in emailDb
  /\ classification[id].exists
  /\ classification' = [classification EXCEPT
                          ![id].userOverride = TRUE,
                          ![id].priority = UserChoice.priority,
                          ![id].category = UserChoice.category]
  /\ history' = history \cup {[emailId |-> id, reason |-> "user-override", run |-> NoRunId]}
  /\ UNCHANGED <<senderProfile, syncVars, pureVars, classifierVars, clock, mailbox, emailDb, agentRuns, proc, trig>>

(* ---------- runAgentPipeline ---------- *)

MAX_EMAILS_PER_RUN == 500
HOT_THREAD_MIN == 3
STALE_TAKE == 50

Take(s, n) == SubSeq(s, 1, Min(n, Len(s)))

\* what a classifyEmails result carries into the Store
LLMVerdict == [priority |-> 3, category |-> "task"]

\* classifyEmails(inputs): results in any number and order, for ids of the
\* input, of other emails, or of no email at all (SpecClassifier shows it
\* passes on whatever ids the LLM answers with)
ClassifyEmailsResults ==
  SeqsUpTo({[emailId |-> id, classification |-> LLMVerdict] : id \in emailDb \cup {UnknownId}},
           MaxResults)

\* the row the rule-matched upsert leaves (step 4b)
RuleUpsert(row, rule) ==
  [row EXCEPT !.exists = TRUE,
              !.priority = OrElse(rule.priority, 4),
              !.category = OrElse(rule.category, "notification"),
              !.classifierVersion = "user-rule",
              !.handled = OrElse(rule.autoHandle, FALSE)]

\* the row the initial upsert (step 6) and the hot-thread update (step 6c) leave
LLMWrite(row, result) ==
  [row EXCEPT !.exists = TRUE,
              !.priority = result.classification.priority,
              !.category = result.classification.category,
              !.classifierVersion = "v3-gpt52-enriched"]

HistoryRow(id, reason, r) == [emailId |-> id, reason |-> reason, run |-> r]

\* Step 2: syncAllAccounts.  The Mail Source answers for the accounts in `up`;
\* a fetch that throws is caught in syncEmailAccount and counted
Sync(r) ==
  /\ proc[r].pc = "sync"
  /\ \E up \in SUBSET Accounts :
       LET fetched == {id \in mailbox : Mail[id].accountId \in up}
       IN  /\ mailbox' = mailbox \ fetched
           /\ emailDb' = emailDb \cup fetched
           /\ proc' = [proc EXCEPT ![r].pc = "load",
                                   ![r].syncErrors = Cardinality(Accounts \ up)]
  /\ UNCHANGED <<senderProfile, syncVars, pureVars, classifierVars, clock, classification, history, agentRuns, trig>>

\* a Store call inside the try throws: the catch marks the run and rethrows
StoreThrows(r) ==
  /\ proc[r].pc \in {"sync", "load"}
  /\ agentRuns' = [agentRuns EXCEPT ![r].status = "failed",
                                    ![r].errorMessage = "Store unreachable"]
  /\ proc' = [proc EXCEPT ![r].pc = "done", ![r].thrown = TRUE]
  /\ UNCHANGED <<senderProfile, syncVars, pureVars, classifierVars, clock, mailbox, emailDb, classification, history, trig>>

\* Steps 3 to 4: the unclassified emails, their threads, the rules, the inputs
Load(r) ==
  /\ proc[r].pc = "load"
  /\ LET unclassifiedEmails ==
           Take(NewestFirst({id \in emailDb : ~classification[id].exists}),
                MAX_EMAILS_PER_RUN)
         threadIds == {Mail[id].threadId : id \in Range(unclassifiedEmails)} \ {NoThread}
         matched == [id \in Range(unclassifiedEmails) |->
                       userRules # <<>> /\ matchUserRules(Mail[id], userRules) # NoRule]
     IN  IF unclassifiedEmails = <<>>
           THEN /\ agentRuns' = [agentRuns EXCEPT ![r].status = "completed"]
                /\ proc' = [proc EXCEPT ![r].pc = "done"]
           ELSE /\ proc' = [proc EXCEPT
                     ![r].pc = "rules",
                     ![r].unclassified = unclassifiedEmails,
                     ![r].threadEmails = {id \in emailDb : Mail[id].threadId \in threadIds},
                     ![r].inputs = SeqFilter(unclassifiedEmails,
                                             [id \in Range(unclassifiedEmails) |-> ~matched[id]]),
                     ![r].ruleMatched = SeqFilter(unclassifiedEmails, matched)]
                /\ UNCHANGED agentRuns
  /\ UNCHANGED <<senderProfile, syncVars, pureVars, classifierVars, clock, mailbox, emailDb, classification, history, trig>>

\* Step 4b: upsert a classification for every rule-matched email
StoreRuleMatched(r) ==
  /\ proc[r].pc = "rules"
  /\ LET ids == Range(proc[r].ruleMatched)
     IN  /\ classification' =
               [id \in MailIds |->
                  IF id \in ids
                    THEN RuleUpsert(classification[id], matchUserRules(Mail[id], userRules))
                    ELSE classification[id]]
         /\ history' = history \cup {HistoryRow(id, "user-rule", r) : id \in ids}
  /\ proc' = [proc EXCEPT ![r].ruleStored = Len(proc[r].ruleMatched),
                          ![r].pc = IF proc[r].inputs # <<>> THEN "classify" ELSE "hot"]
  /\ UNCHANGED <<senderProfile, syncVars, pureVars, classifierVars, clock, mailbox, emailDb, agentRuns, trig>>

\* Step 5: classifyEmails(inputs, classifyOptions) returns
Classify(r) ==
  /\ proc[r].pc = "classify"
  /\ \E res \in ClassifyEmailsResults :
       proc' = [proc EXCEPT ![r].pc = "prefetch",
                            ![r].results = res,
                            ![r].llmSent = @ \cup Range(proc[r].inputs)]
  /\ UNCHANGED <<senderProfile, syncVars, pureVars, classifierVars, clock, mailbox, emailDb, classification, history, agentRuns, trig>>

\* Step 6, first half: the overrides among validEmailIds, read once
Prefetch(r) ==
  /\ proc[r].pc = "prefetch"
  /\ proc' = [proc EXCEPT
       ![r].overrideSet = {id \in Range(proc[r].unclassified) :
                             classification[id].exists /\ classification[id].userOverride},
       ![r].idx = 1,
       ![r].pc = IF proc[r].results = <<>> THEN "hot" ELSE "store"]
  /\ UNCHANGED <<senderProfile, syncVars, pureVars, classifierVars, clock, mailbox, emailDb, classification, history, agentRuns, trig>>

\* after the last result of a loop the locals of the loop are dead
LoopStep(r, storedNow, after) ==
  IF proc[r].idx = Len(proc[r].results)
    THEN proc' = [proc EXCEPT ![r].pc = after, ![r].idx = 0, ![r].results = <<>>,
                              ![r].overrideSet = {},
                              ![r].stored = @ + storedNow]
    ELSE proc' = [proc EXCEPT ![r].idx = @ + 1, ![r].stored = @ + storedNow]

\* Step 6, one turn of the loop over results
StoreResult(r) ==
  /\ proc[r].pc = "store"
  /\ LET result == proc[r].results[proc[r].idx]
         validEmailIds == Range(proc[r].unclassified)
     IN  IF result.emailId \notin validEmailIds \/ result.emailId \in proc[r].overrideSet
           THEN /\ UNCHANGED <<classification, history>>
                /\ LoopStep(r, 0, "hot")
           ELSE /\ history' = history \cup {HistoryRow(result.emailId, "initial", r)}
                /\ classification' =
                     [classification EXCEPT ![result.emailId] = LLMWrite(@, result)]
                /\ LoopStep(r, 1, "hot")
  /\ UNCHANGED <<senderProfile, syncVars, pureVars, classifierVars, clock, mailbox, emailDb, agentRuns, trig>>

\* Step 6b: one upsert per sender of the loaded emails, which creates the row
\* with totalEmails = senderEmails.length or increments it by that number
updateSenderProfiles(profiles, unclassifiedEmails) ==
  [s \in Senders |->
     profiles[s] + Cardinality({id \in Range(unclassifiedEmails) : Mail[id].from = s})]

\* Step 6b, then step 6c up to the staleEmails query: hot threads, resolution
\* marks, and the older classified emails of the hot threads
HotThreads(r) ==
  /\ proc[r].pc = "hot"
  /\ LET newEmailIds == Range(proc[r].unclassified)
         newInThread(tid) == Cardinality({id \in newEmailIds : Mail[id].threadId = tid})
         hotThreadIds == {tid \in {Mail[id].threadId : id \in newEmailIds} \ {NoThread} :
                            newInThread(tid) >= HOT_THREAD_MIN}
         threadSiblings(tid) ==
           NewestFirst({id \in proc[r].threadEmails : Mail[id].threadId = tid})
         resolved == {tid \in hotThreadIds :
                        /\ threadSiblings(tid) # <<>>
                        /\ detectResolution(Mail[threadSiblings(tid)[1]].subject,
                                            Mail[threadSiblings(tid)[1]].snippet)}
         marked == [id \in MailIds |->
                      IF /\ id \in emailDb
                         /\ Mail[id].threadId \in resolved
                         /\ id \notin newEmailIds
                         /\ classification[id].exists
                         /\ ~classification[id].userOverride
                         /\ ~classification[id].handled
                        THEN [classification[id] EXCEPT !.threadResolved = TRUE]
                        ELSE classification[id]]
         staleEmails ==
           Take(NewestFirst({id \in emailDb :
                               /\ Mail[id].threadId \in hotThreadIds
                               /\ id \notin newEmailIds
                               /\ marked[id].exists
                               /\ ~marked[id].userOverride
                               /\ ~marked[id].handled
                               /\ ~marked[id].threadResolved}),
                STALE_TAKE)
     IN  IF hotThreadIds = {}
           THEN /\ proc' = [proc EXCEPT ![r].pc = "finish"]
                /\ UNCHANGED classification
           ELSE /\ classification' = marked
                /\ proc' = [proc EXCEPT
                              ![r].staleInputs = staleEmails,
                              ![r].pc = IF staleEmails = <<>> THEN "finish" ELSE "reclassify"]
  /\ senderProfile' = updateSenderProfiles(senderProfile, proc[r].unclassified)
  /\ UNCHANGED <<syncVars, pureVars, classifierVars, clock, mailbox, emailDb, history, agentRuns, trig>>

\* Step 6c: classifyEmails(staleInputs, classifyOptions) returns
Reclassify(r) ==
  /\ proc[r].pc = "reclassify"
  /\ \E reResults \in ClassifyEmailsResults :
       proc' = [proc EXCEPT ![r].pc = IF reResults = <<>> THEN "finish" ELSE "restore",
                            ![r].results = reResults,
                            ![r].idx = IF reResults = <<>> THEN 0 ELSE 1,
                            ![r].llmSent = @ \cup Range(proc[r].staleInputs)]
  /\ UNCHANGED <<senderProfile, syncVars, pureVars, classifierVars, clock, mailbox, emailDb, classification, history, agentRuns, trig>>

\* Step 6c, one turn of the loop over reResults: a history row (refused by
\* the foreign key when no such email exists), then an update that throws (and
\* is caught) when the email has no classification
RestoreResult(r) ==
  /\ proc[r].pc = "restore"
  /\ LET result == proc[r].results[proc[r].idx]
     IN  /\ history' = IF result.emailId \in emailDb
                         THEN history \cup {HistoryRow(result.emailId, "hot-thread", r)}
                         ELSE history
         /\ classification' =
              IF result.emailId \in emailDb /\ classification[result.emailId].exists
                THEN [classification EXCEPT ![result.emailId] = LLMWrite(@, result)]
                ELSE classification
  /\ LoopStep(r, 0, "finish")
  /\ UNCHANGED <<senderProfile, syncVars, pureVars, classifierVars, clock, mailbox, emailDb, agentRuns, trig>>

\* Step 7: the final status
Finish(r) ==
  /\ proc[r].pc = "finish"
  /\ LET totalStored == proc[r].stored + proc[r].ruleStored
     IN  agentRuns' = [agentRuns EXCEPT ![r].status =
                         IF totalStored = 0 /\ Len(proc[r].inputs) > 0
                           THEN "failed" ELSE "completed"]
  /\ proc' = [proc EXCEPT ![r].pc = "done"]
  /\ UNCHANGED <<senderProfile, syncVars, pureVars, classifierVars, clock, mailbox, emailDb, classification, history, trig>>

(* ---------- specifications ---------- *)

PipelineIdle ==
  /\ clock = 0
  /\ mailbox = {}
  /\ emailDb = {}
  /\ classification = [id \in MailIds |-> NoClassification]
  /\ history = {}
  /\ senderProfile = [s \in Senders |-> 0]
  /\ agentRuns = [r \in RunIds |-> NoAgentRun]
  /\ proc = [r \in RunIds |-> NotStarted]
  /\ trig = NoRequest

\* no syncEmailAccount call is running
NoSync ==
  [pc |-> "idle", cursor |-> None, forceFullSync |-> FALSE, fetched |-> <<>>,
   newSyncCursor |-> None, i |-> 0, stored |-> 0, errors |-> 0]

SyncIdle ==
  /\ source = 0
  /\ account = [isActive |-> TRUE, syncCursor |-> None]
  /\ emailRows = {}
  /\ syncCall = NoSync

ClassifierIdle ==
  /\ emails = <<>>
  /\ options = [companyDomains |-> {}, confidenceOverrides |-> <<>>]
  /\ batches = <<>>
  /\ batchIdx = 0
  /\ pc = "done"
  /\ call = NoCall
  /\ lastCall = NoLastCall
  /\ lowConfidence = <<>>
  /\ reBatches = <<>>
  /\ reIdx = 0
  /\ results = <<>>
  /\ errors = <<>>

ClassifierInit ==
  /\ emails \in EmailInputs
  /\ options \in ClassifyOptionsPool
  /\ batches = splitIntoBatches(emails, FALSE)
  /\ batchIdx = 1
  /\ pc = "first"
  /\ call = NewCall(batches[1], FALSE)
  /\ lastCall = NoLastCall
  /\ lowConfidence = <<>>
  /\ reBatches = <<>>
  /\ reIdx = 0
  /\ results = <<>>
  /\ errors = <<>>
  /\ PipelineIdle
  /\ SyncIdle
  /\ PureIdle

ClassifierNext == LLMResponds \/ LLMRateLimited \/ LLMFails

SpecClassifier == ClassifierInit /\ [][ClassifierNext]_vars

\* One run over a hot thread.  An earlier run has stored m1 and classified it
\* by the rule; m2, m3 and m4 wait at the Mail Source.  The cron triggers one
\* run; the user corrects classifications while it executes.
StoreInit ==
  /\ ClassifierIdle
  /\ SyncIdle
  /\ PureIdle
  /\ clock = 0
  /\ mailbox = {"m2", "m3", "m4"}
  /\ emailDb = {"m1"}
  /\ classification =
       [id \in MailIds |->
          IF id = "m1"
            THEN RuleUpsert(NoClassification, matchUserRules(Mail[id], userRules))
            ELSE NoClassification]
  /\ history = {HistoryRow("m1", "user-rule", NoRunId)}
  /\ senderProfile = [s \in Senders |-> IF s = Mail["m1"].from THEN 1 ELSE 0]
  /\ agentRuns = [r \in RunIds |-> NoAgentRun]
  /\ proc = [r \in RunIds |-> NotStarted]
  /\ trig = NoRequest

FirstCron == FreeRunIds = RunIds /\ CronTrigger

StoreNext ==
  \/ FirstCron
  \/ \E id \in MailIds : UserOverride(id)
  \/ \E r \in RunIds : Sync(r)
  \/ \E r \in RunIds : StoreThrows(r)
  \/ \E r \in RunIds : Load(r)
  \/ \E r \in RunIds : StoreRuleMatched(r)
  \/ \E r \in RunIds : Classify(r)
  \/ \E r \in RunIds : Prefetch(r)
  \/ \E r \in RunIds : StoreResult(r)
  \/ \E r \in RunIds : HotThreads(r)
  \/ \E r \in RunIds : Reclassify(r)
  \/ \E r \in RunIds : RestoreResult(r)
  \/ \E r \in RunIds : Finish(r)

SpecStore == StoreInit /\ [][StoreNext]_vars

\* Runs against each other.  The Store is empty and one message, m5, waits at
\* the Mail Source; manual triggers and cron invocations arrive at any time
\* while the clock advances.  No thread gets hot with one message, so step 6c
\* ends at its hot-thread test and its re-classification is never enabled.
RunsInit ==
  /\ ClassifierIdle
  /\ SyncIdle
  /\ PureIdle
  /\ clock = 0
  /\ mailbox = {"m5"}
  /\ emailDb = {}
  /\ classification = [id \in MailIds |-> NoClassification]
  /\ history = {}
  /\ senderProfile = [s \in Senders |-> 0]
  /\ agentRuns = [r \in RunIds |-> NoAgentRun]
  /\ proc = [r \in RunIds |-> NotStarted]
  /\ trig = NoRequest

RunsNext ==
  \/ Tick
  \/ CronTrigger
  \/ ManualFind
  \/ ManualFailStale
  \/ ManualCreate
  \/ \E r \in RunIds : Sync(r)
  \/ \E r \in RunIds : StoreThrows(r)
  \/ \E r \in RunIds : Load(r)
  \/ \E r \in RunIds : StoreRuleMatched(r)
  \/ \E r \in RunIds : Classify(r)
  \/ \E r \in RunIds : Prefetch(r)
  \/ \E r \in RunIds : StoreResult(r)
  \/ \E r \in RunIds : HotThreads(r)
  \/ \E r \in RunIds : Finish(r)

SpecRuns == RunsInit /\ [][RunsNext]_vars

(* ======================================================================= *)
(* email-sync.ts: syncEmailAccount against the Mail Source.                *)
(* ======================================================================= *)

MaxMessages == 3    \* messages the provider receives

RECURSIVE Interval(_, _)
\* the messages from..to, oldest first
Interval(from, to) == IF from > to THEN <<>> ELSE <<from>> \o Interval(from + 1, to)

\* fetchGmailEmails / fetchOutlookEmails: the messages added since the cursor, or
\* the whole 30-day window without one, and the provider's current history id
\* (delta link) if the response carries it
fetchEmails(cursor, hasHistoryId) ==
  IF cursor # None
    THEN [emails |-> Interval(cursor.v + 1, source),
          newSyncCursor |-> IF hasHistoryId THEN Some(source) ELSE cursor]
    ELSE [emails |-> Interval(1, source),
          newSyncCursor |-> IF hasHistoryId THEN Some(source) ELSE None]

\* the provider receives a message
Deliver ==
  /\ source < MaxMessages
  /\ source' = source + 1
  /\ UNCHANGED <<account, emailRows, syncCall, classifierVars, pipelineVars, pureVars>>

\* syncEmailAccount(emailAccountId, forceFullSync) up to the fetch
StartSync(forceFullSync) ==
  /\ syncCall.pc = "idle"
  /\ syncCall' = IF ~account.isActive THEN NoSync
                 ELSE [NoSync EXCEPT !.pc = "fetch", !.cursor = account.syncCursor,
                                     !.forceFullSync = forceFullSync]
  /\ UNCHANGED <<source, account, emailRows, classifierVars, pipelineVars, pureVars>>

\* the fetch resolves
FetchReturns(hasHistoryId) ==
  /\ syncCall.pc = "fetch"
  /\ LET result == fetchEmails(IF syncCall.forceFullSync THEN None ELSE syncCall.cursor,
                               hasHistoryId)
     IN  syncCall' = [syncCall EXCEPT !.pc = "store", !.fetched = result.emails,
                                      !.newSyncCursor = result.newSyncCursor, !.i = 1]
  /\ UNCHANGED <<source, account, emailRows, classifierVars, pipelineVars, pureVars>>

\* the fetch throws: return { fetched: 0, errors: 1 }
FetchThrows ==
  /\ syncCall.pc = "fetch"
  /\ syncCall' = [NoSync EXCEPT !.errors = 1]
  /\ UNCHANGED <<source, account, emailRows, classifierVars, pipelineVars, pureVars>>

\* prisma.email.upsert of one fetched email
Upsert(rows, externalId) == rows \cup {externalId}

UpsertSucceeds ==
  /\ syncCall.pc = "store"
  /\ syncCall.i <= Len(syncCall.fetched)
  /\ emailRows' = Upsert(emailRows, syncCall.fetched[syncCall.i])
  /\ syncCall' = [syncCall EXCEPT !.i = @ + 1, !.stored = @ + 1]
  /\ UNCHANGED <<source, account, classifierVars, pipelineVars, pureVars>>

\* the upsert throws: caught, errors++
UpsertThrows ==
  /\ syncCall.pc = "store"
  /\ syncCall.i <= Len(syncCall.fetched)
  /\ syncCall' = [syncCall EXCEPT !.i = @ + 1, !.errors = @ + 1]
  /\ UNCHANGED <<source, account, emailRows, classifierVars, pipelineVars, pureVars>>

\* syncCursor: newSyncCursor ?? account.syncCursor
cursorToStore(sc) ==
  IF sc.newSyncCursor # None THEN sc.newSyncCursor ELSE sc.cursor

\* the account update after the loop, and the return
UpdateAccount ==
  /\ syncCall.pc = "store"
  /\ syncCall.i > Len(syncCall.fetched)
  /\ account' = [account EXCEPT !.syncCursor = cursorToStore(syncCall)]
  /\ syncCall' = [syncCall EXCEPT !.pc = "idle"]
  /\ UNCHANGED <<source, emailRows, classifierVars, pipelineVars, pureVars>>

SyncInit ==
  /\ ClassifierIdle
  /\ PipelineIdle
  /\ PureIdle
  /\ source = 0
  /\ account = [isActive |-> TRUE, syncCursor |-> None]
  /\ emailRows = {}
  /\ syncCall = NoSync

SyncNext ==
  \/ Deliver
  \/ \E forceFullSync \in BOOLEAN : StartSync(forceFullSync)
  \/ \E hasHistoryId \in BOOLEAN : FetchReturns(hasHistoryId)
  \/ FetchThrows
  \/ UpsertSucceeds
  \/ UpsertThrows
  \/ UpdateAccount

SpecSync == SyncInit /\ [][SyncNext]_vars

(* ======================================================================= *)
(* The Priority Engine: computeEffectivePriority.                          *)
(*                                                                         *)
(* Conventions                                                             *)
(*   - dates are whole days from now (Day(0)), at now's time of day;       *)
(*   - today is now.getDay(): 0 is Sunday, 6 is Saturday;                  *)
(*   - ages and reply windows are counted in DAY_PARTS-ths of a day, so    *)
(*     that 0.6 days, avgHours * 1.5 / 24 days and its half are whole;      *)
(*   - options.confidence and avgResponseTime are None or Some(v),       *)
(*     an absent flag is FALSE, an absent string is Null or <<>>.          *)
(* ======================================================================= *)

DAY_PARTS == 160

\* Date.prototype.getDay of a day counted from now
getDay(d, today) == (today + d.day + 7 * 100) % 7

\* the days from `from` up to the day before `to` that are not Saturday or Sunday
businessDaysBetween(from, to, today) ==
  IF to.day <= from.day THEN 0
  ELSE Cardinality({n \in from.day..(to.day - 1) : getDay(Day(n), today) \notin {0, 6}})

\* new Date(item.dueDate) of the items that have a dueDate that parses
itemDates(actionItems) ==
  {actionItems[i].dueDate.day : i \in {j \in 1..Len(actionItems) :
                                         actionItems[j].dueDate.kind = "day"}}

\* the earliest of the main deadline and the action items' dates
effectiveDeadline(deadline, actionItems) ==
  LET days == itemDates(actionItems) \cup (IF deadline = NoDate THEN {} ELSE {deadline.day})
  IN  IF days = {} THEN NoDate
      ELSE Day(CHOOSE n \in days : \A m \in days : n <= m)

\* the bands without the 14-day one
deadlinePriorityNoModerate(daysUntil, storedPriority) ==
  IF daysUntil > 6 THEN storedPriority
  ELSE IF daysUntil > 2 THEN 2
  ELSE IF daysUntil >= -7 THEN 1
  ELSE IF daysUntil >= -30 THEN 2
  ELSE IF daysUntil >= -90 THEN 3
  ELSE storedPriority

\* the band of a deadline daysUntil days away
deadlinePriority(daysUntil, storedPriority) ==
  IF daysUntil <= 0
    THEN LET daysOverdue == 0 - daysUntil
         IN  IF daysOverdue <= 7 THEN 1
             ELSE IF daysOverdue <= 30 THEN 2
             ELSE IF daysOverdue <= 90 THEN 3
             ELSE storedPriority
  ELSE IF daysUntil <= 2 THEN 1
  ELSE IF daysUntil <= 6 THEN 2
  ELSE IF daysUntil <= 14 THEN 3
  ELSE storedPriority

\* the priority of an unanswered email of that age
agePriority(receivedAt, avgResponseTime, storedPriority, today) ==
  LET bizDays == businessDaysBetween(receivedAt, Day(Now), today)
      calendarDays == Now - receivedAt.day
      ageForThreshold == Max(bizDays * DAY_PARTS, (calendarDays * DAY_PARTS * 6) \div 10)
      avgHours == OrElse(avgResponseTime, 0)
      baseWindowDays == Max(DAY_PARTS, (avgHours * 15 * DAY_PARTS) \div 240)
      criticalDays == IF avgHours > 0 THEN baseWindowDays * 3 ELSE 5 * DAY_PARTS
      importantDays == IF avgHours > 0 THEN baseWindowDays ELSE 2 * DAY_PARTS
      moderateDays == IF avgHours > 0 THEN baseWindowDays \div 2 ELSE DAY_PARTS
  IN  IF ageForThreshold > criticalDays THEN 1
      ELSE IF ageForThreshold > importantDays THEN 2
      ELSE IF ageForThreshold > moderateDays THEN Min(storedPriority, 3)
      ELSE storedPriority

\* no lower bound at 1
boostNoLowerBound(p) == p

\* Math.min(Math.max(...)) of a boost by `step` levels, taken off the stored priority
boostLowerBound(p) == Max(1, p)

boost(effectivePriority, storedPriority, step) ==
  boostLowerBound(Min(effectivePriority, storedPriority - step))

\* effectivePriority = ceiling, whatever it was
ensureExactly(effectivePriority, ceiling) == ceiling

\* if (effectivePriority > ceiling) effectivePriority = ceiling
ensureAtMost(effectivePriority, ceiling) ==
  IF effectivePriority > ceiling THEN ceiling ELSE effectivePriority

\* String.prototype.toLowerCase of the labels and relationships the model uses
toLowerCaseWord(w) ==
  IF w = "Corp" THEN "corp" ELSE IF w = "Automated" THEN "automated" ELSE w

toLowerCaseDomain(d) == [i \in 1..Len(d) |-> toLowerCaseWord(d[i])]

\* sd === dl || sd.endsWith("." + dl) for some company domain
isInternal(senderDomain, companyDomains) ==
  \E d \in companyDomains :
    IsSuffix(toLowerCaseDomain(d), toLowerCaseDomain(senderDomain))

\* no VIP floor
vipPriorityNoFloor(isVipSender, effectivePriority) == effectivePriority

\* the VIP floor
vipPriority(isVipSender, effectivePriority) ==
  IF isVipSender THEN ensureAtMost(effectivePriority, 2) ELSE effectivePriority

\* the sender relationship adjustments
relationshipPriority(senderRelationship, effectivePriority) ==
  IF senderRelationship = Null THEN effectivePriority
  ELSE LET rel == toLowerCaseWord(senderRelationship)
           p == IF rel = "automated" THEN ensureAtMost(effectivePriority, 4)
                ELSE effectivePriority
       IN  IF rel \in {"colleague", "manager"} THEN ensureAtMost(p, 3) ELSE p

\* what computeEffectivePriority has in effectivePriority when it reaches the
\* confidence-based cap
priorityBeforeCap(storedPriority, deadline, opts, today) ==
  LET due == effectiveDeadline(deadline, opts.actionItems)
      p1 == IF due # NoDate
              THEN Min(storedPriority, deadlinePriority(due.day - Now, storedPriority))
              ELSE storedPriority
      p2 == IF opts.needsReply /\ ~opts.handled /\ opts.receivedAt # NoDate
              THEN Min(p1, agePriority(opts.receivedAt, opts.avgResponseTime,
                                       storedPriority, today))
              ELSE p1
      p3 == IF opts.isFollowUp /\ ~opts.handled THEN boost(p2, storedPriority, 1) ELSE p2
      p4 == IF opts.isEscalation /\ ~opts.handled THEN boost(p3, storedPriority, 2) ELSE p3
      p5 == IF opts.senderVelocityAnomaly /\ ~opts.handled
              THEN boost(p4, storedPriority, 1) ELSE p4
      p6 == vipPriority(opts.isVipSender, p5)
      p7 == IF opts.isStarred THEN ensureAtMost(p6, 2) ELSE p6
      p8 == IF opts.senderDomain # <<>> /\ opts.companyDomains # {}
               /\ isInternal(opts.senderDomain, opts.companyDomains)
              THEN ensureAtMost(p7, 3) ELSE p7
      p9 == relationshipPriority(opts.senderRelationship, p8)
  IN  IF opts.isThreadActive /\ opts.needsReply /\ ~opts.handled
        THEN boost(p9, storedPriority, 1) ELSE p9

\* the stored priority returned as for a handled email
resolvedPriorityStored(storedPriority) == storedPriority

\* the return of the thread-resolved branch
resolvedPriority(storedPriority) == Max(storedPriority, 4)

LOW_CONFIDENCE == 60

computeEffectivePriority(storedPriority, deadline, opts, today) ==
  IF opts.handled THEN storedPriority
  ELSE IF opts.threadResolved THEN resolvedPriority(storedPriority)
  ELSE
    LET effectivePriority == priorityBeforeCap(storedPriority, deadline, opts, today)
        hasDeadlineEscalation == effectiveDeadline(deadline, opts.actionItems) # NoDate
    IN  IF opts.confidence # None /\ opts.confidence.v < LOW_CONFIDENCE
           /\ effectivePriority <= 2 /\ ~hasDeadlineEscalation
          THEN Max(effectivePriority, 3)
          ELSE effectivePriority

(* ---------- computeEffectivePriority called on its own ---------- *)

MaxAgeDays == 9     \* days since receipt, in the sweep over ages

Priorities == 1..5

\* options with every field absent
NoOptions ==
  [needsReply |-> FALSE, handled |-> FALSE, receivedAt |-> NoDate, isVipSender |-> FALSE,
   senderDomain |-> <<>>, companyDomains |-> {}, actionItems |-> <<>>, isFollowUp |-> FALSE,
   isEscalation |-> FALSE, senderVelocityAnomaly |-> FALSE, senderRelationship |-> Null,
   isThreadActive |-> FALSE, confidence |-> None, isStarred |-> FALSE,
   avgResponseTime |-> None, threadResolved |-> FALSE]

Item(dueDate) == [description |-> "todo", dueDate |-> dueDate]

PriorityCall(storedPriority, deadline, opts, today) ==
  [fn |-> "computeEffectivePriority", storedPriority |-> storedPriority,
   deadline |-> deadline, options |-> opts, today |-> today]

\* every combination of the signals of an email that is neither handled nor
\* thread-resolved, on a Wednesday
SignalCalls ==
  { PriorityCall(sp, d,
      [NoOptions EXCEPT !.needsReply = r[1], !.receivedAt = r[2], !.isVipSender = f[4],
                        !.senderDomain = dom, !.companyDomains = {<<"corp", "com">>},
                        !.isFollowUp = f[1], !.isEscalation = f[2],
                        !.senderVelocityAnomaly = f[3], !.senderRelationship = rel,
                        !.isThreadActive = f[6], !.confidence = c, !.isStarred = f[5]], 3) :
      sp \in Priorities,
      d \in {NoDate, Day(-100), Day(1), Day(20)},
      r \in {<<FALSE, NoDate>>, <<TRUE, Day(0)>>, <<TRUE, Day(-3)>>, <<TRUE, Day(-9)>>},
      f \in [1..6 -> BOOLEAN],
      dom \in {<<>>, <<"mail", "Corp", "com">>},
      rel \in {Null, "automated", "colleague"},
      c \in {None, Some(40), Some(80)} }

\* handled or thread-resolved emails, with signals that would escalate them
SettledCalls ==
  { PriorityCall(sp, d,
      [NoOptions EXCEPT !.handled = h[1], !.threadResolved = h[2], !.needsReply = r[1],
                        !.receivedAt = r[2], !.isVipSender = f[1], !.isEscalation = f[2],
                        !.senderRelationship = rel, !.confidence = c], 3) :
      sp \in Priorities,
      h \in {<<TRUE, FALSE>>, <<FALSE, TRUE>>, <<TRUE, TRUE>>},
      d \in {NoDate, Day(1)},
      r \in {<<FALSE, NoDate>>, <<TRUE, Day(-9)>>},
      f \in [1..2 -> BOOLEAN],
      rel \in {Null, "Automated"},
      c \in {None, Some(40)} }

\* deadlines and action-item due dates on both sides of every band, nothing else
DeadlineCalls ==
  { PriorityCall(sp, d, [NoOptions EXCEPT !.actionItems = items, !.confidence = c], 3) :
      sp \in Priorities,
      d \in {NoDate} \cup {Day(n) : n \in {-91, -90, -31, -30, -8, -7, 0, 1, 2, 3, 6, 7,
                                           10, 14, 15}},
      items \in {<<>>, <<Item(NoDate)>>, <<Item(Garbage)>>, <<Item(Day(5))>>,
                 <<Item(Day(-20)), Item(Garbage), Item(Day(12))>>},
      c \in {None, Some(40)} }

\* unanswered emails of every age on every day of the week, for senders with and
\* without an average response time (in hours)
AgeCalls ==
  { PriorityCall(sp, NoDate,
      [NoOptions EXCEPT !.needsReply = TRUE, !.receivedAt = Day(0 - k),
                        !.avgResponseTime = avg], today) :
      sp \in Priorities, k \in 0..MaxAgeDays, today \in 0..6,
      avg \in {None, Some(0), Some(8), Some(48), Some(100)} }

PriorityInit ==
  /\ ClassifierIdle
  /\ SyncIdle
  /\ PipelineIdle
  /\ fnResult = NoRet
  /\ fnArgs \in SignalCalls \cup SettledCalls \cup DeadlineCalls \cup AgeCalls

CallComputeEffectivePriority ==
  /\ fnArgs.fn = "computeEffectivePriority"
  /\ fnResult = NoRet
  /\ fnResult' = Returned(computeEffectivePriority(fnArgs.storedPriority, fnArgs.deadline,
                                                   fnArgs.options, fnArgs.today))
  /\ UNCHANGED <<fnArgs, classifierVars, pipelineVars, syncVars>>

PriorityNext == CallComputeEffectivePriority

SpecPriority == PriorityInit /\ [][PriorityNext]_vars

(* ---------- agent-pipeline.ts: computeEscalationReasons ---------- *)

\* one line of the explanation; n is the number the template string prints
Reason(text, n) == [text |-> text, n |-> n]

computeEscalationReasons(storedPriority, effectivePriority, deadline, opts, today) ==
  IF effectivePriority >= storedPriority /\ ~opts.threadResolved THEN <<>>
  ELSE
    LET due == effectiveDeadline(deadline, opts.actionItems)
        daysUntil == due.day - Now
        bizDays == businessDaysBetween(opts.receivedAt, Day(Now), today)
    IN  (IF opts.threadResolved THEN <<Reason("Thread resolved, de-escalated", 0)>> ELSE <<>>)
        \o (IF due = NoDate THEN <<>>
            ELSE IF daysUntil <= 0 THEN <<Reason("Overdue by days", 0 - daysUntil)>>
            ELSE IF daysUntil <= 14 THEN <<Reason("Deadline in days", daysUntil)>>
            ELSE <<>>)
        \o (IF opts.needsReply /\ opts.receivedAt # NoDate /\ bizDays > 1
              THEN <<Reason("Unanswered for business days", bizDays)>> ELSE <<>>)
        \o (IF opts.isFollowUp THEN <<Reason("Follow-up detected", 0)>> ELSE <<>>)
        \o (IF opts.isEscalation THEN <<Reason("Escalation detected", 0)>> ELSE <<>>)
        \o (IF opts.senderVelocityAnomaly
              THEN <<Reason("Unusual sender activity", 0)>> ELSE <<>>)
        \o (IF opts.isVipSender THEN <<Reason("VIP sender", 0)>> ELSE <<>>)
        \o (IF opts.isStarred
              THEN <<Reason("Starred/important in email client", 0)>> ELSE <<>>)
        \o (IF opts.isThreadActive /\ opts.needsReply
              THEN <<Reason("Active thread needs reply", 0)>> ELSE <<>>)

(* ---------- app/api/emails/[id]/route.ts: the detail view ---------- *)

\* the classification and sender profile the detail view reads
DetailCalls ==
  { [a EXCEPT !.fn = "GET"] : a \in SignalCalls \cup SettledCalls \cup DeadlineCalls }

DetailInit ==
  /\ ClassifierIdle
  /\ SyncIdle
  /\ PipelineIdle
  /\ fnResult = NoRet
  /\ fnArgs \in DetailCalls

\* ep = computeEffectivePriority(...); escalationReasons = computeEscalationReasons(..., ep, ...)
GetEmailDetail ==
  /\ fnArgs.fn = "GET"
  /\ fnResult = NoRet
  /\ LET ep == computeEffectivePriority(fnArgs.storedPriority, fnArgs.deadline,
                                        fnArgs.options, fnArgs.today)
     IN  fnResult' = Returned([effectivePriority |-> ep,
                               escalationReasons |->
                                 computeEscalationReasons(fnArgs.storedPriority, ep,
                                   fnArgs.deadline, fnArgs.options, fnArgs.today)])
  /\ UNCHANGED <<fnArgs, classifierVars, pipelineVars, syncVars>>

DetailNext == GetEmailDetail

SpecDetail == DetailInit /\ [][DetailNext]_vars

(* ---------- agent-pipeline.ts: self-tuning confidence thresholds ---------- *)

\* Thresholds and rates of this part are counted in THRESHOLD_UNITS-ths of 1, so
\* that overrides / total is whole for every total up to 10
THRESHOLD_UNITS == 50400

Hundredths(n) == n * (THRESHOLD_UNITS \div 100)

BASE_THRESHOLDS ==
  [c \in {"spam", "newsletter", "marketing", "social", "shipping", "notification"} |->
     Hundredths(60)] @@
  [c \in {"meeting", "travel"} |-> Hundredths(65)] @@
  [c \in {"finance", "security", "personal", "support"} |-> Hundredths(70)] @@
  [c \in {"fyi", "task"} |-> Hundredths(75)] @@
  [c \in {"reply-needed", "approval"} |-> Hundredths(80)]

MIN_RECENT_OVERRIDES == 5
MIN_CATEGORY_TOTAL == 5

\* the threshold of a category with stats.overrides of stats.total overridden
tunedThreshold(category, stats) ==
  LET overrideRate == (stats.overrides * THRESHOLD_UNITS) \div stats.total
      reduction == Min(Hundredths(15), (overrideRate - Hundredths(20)) \div 2 + Hundredths(5))
      base == IF category \in DOMAIN BASE_THRESHOLDS THEN BASE_THRESHOLDS[category]
              ELSE Hundredths(70)
  IN  Max(Hundredths(40), base - reduction)

\* Step 4d: recentOverrides is the number of overridden classifications found,
\* categoryStats the total and overrides of each category classified in the last
\* 30 days; the result is <<>> when confidenceOverrides stays undefined
selfTunedThresholds(recentOverrides, categoryStats) ==
  IF recentOverrides < MIN_RECENT_OVERRIDES THEN <<>>
  ELSE LET tuned == {c \in DOMAIN categoryStats :
                       /\ categoryStats[c].total >= MIN_CATEGORY_TOTAL
                       /\ categoryStats[c].overrides * THRESHOLD_UNITS >
                            Hundredths(20) * categoryStats[c].total}
       IN  [c \in tuned |-> tunedThreshold(c, categoryStats[c])]

(* ---------- the self-tuning called on its own ---------- *)

MaxTotal == 6       \* classifications of one category in the 30-day window

\* the categories with classifications in the window
TunedCategories == {"task", "spam"}

CategoryStats ==
  {st \in [total : 0..MaxTotal, overrides : 0..MaxTotal] : st.overrides <= st.total}

\* overridden classifications older than the window
OlderOverrides == {0, 5}

TuneInit ==
  /\ ClassifierIdle
  /\ SyncIdle
  /\ PipelineIdle
  /\ fnResult = NoRet
  /\ \E stats \in [TunedCategories -> CategoryStats], older \in OlderOverrides :
       fnArgs = [fn |-> "selfTunedThresholds",
                 recentOverrides |-> older + stats["task"].overrides + stats["spam"].overrides,
                 categoryStats |-> [c \in {k \in TunedCategories : stats[k].total > 0} |->
                                      stats[c]]]

CallSelfTunedThresholds ==
  /\ fnArgs.fn = "selfTunedThresholds"
  /\ fnResult = NoRet
  /\ fnResult' = Returned(selfTunedThresholds(fnArgs.recentOverrides, fnArgs.categoryStats))
  /\ UNCHANGED <<fnArgs, classifierVars, pipelineVars, syncVars>>

TuneNext == CallSelfTunedThresholds

SpecTune == TuneInit /\ [][TuneNext]_vars

(* ---------- normalizeCategory called on its own, and on its own result ---------- *)

\* category strings the LLM may write (the schema accepts every string): taxonomy
\* values, aliases, other spellings of them, words of no meaning to the map, and
\* names of properties every object has
RawCategories ==
  ALLOWED_CATEGORIES \cup DOMAIN CATEGORY_ALIASES \cup DOMAIN LowerTrim \cup
  {"", "banana", "urgent", "tostring"} \cup OBJECT_PROTOTYPE_KEYS

Thrown == [kind |-> "throw"]

CategoryInit ==
  /\ ClassifierIdle
  /\ SyncIdle
  /\ PipelineIdle
  /\ fnResult = NoRet
  /\ \E raw \in RawCategories :
       fnArgs = [fn |-> "normalizeCategory", raw |-> raw, pass |-> 1]

\* raw.toLowerCase() throws a TypeError when raw is no string
CallNormalizeCategory ==
  /\ fnArgs.fn = "normalizeCategory"
  /\ fnResult = NoRet
  /\ fnResult' = IF fnArgs.raw \in NonStrings THEN Thrown
                 ELSE Returned(normalizeCategory(fnArgs.raw))
  /\ UNCHANGED <<fnArgs, classifierVars, pipelineVars, syncVars>>

\* the function is applied to what it returned
CallNormalizeCategoryAgain ==
  /\ fnArgs.fn = "normalizeCategory"
  /\ fnArgs.pass = 1
  /\ fnResult.kind = "return"
  /\ fnArgs' = [fn |-> "normalizeCategory", raw |-> fnResult.value, pass |-> 2]
  /\ fnResult' = NoRet
  /\ UNCHANGED <<classifierVars, pipelineVars, syncVars>>

CategoryNext == CallNormalizeCategory \/ CallNormalizeCategoryAgain

SpecCategory == CategoryInit /\ [][CategoryNext]_vars

(* ---------- needsReclassification called on its own ---------- *)

\* the first-pass results the call is made with: a category of each stakes level,
\* confidences on both sides of every threshold, with and without a deadline
ReclassCategories == {"approval", "task", "fyi", "meeting", "finance", "spam"}
ReclassConfidences == {44, 45, 59, 60, 64, 65, 69, 70, 74, 75, 79, 80, 89, 90}
ReclassDeadlines == {NoDate, Day(3)}

\* no self-tuned thresholds, or the ones the pipeline lowered for two categories
ReclassOverrides == {<<>>, ("task" :> 60) @@ ("spam" :> 45)}

\* the email of the result: none of the batch, or one whose body and snippet have
\* a date-like phrase or not, within the scanned prefix or beyond it
ReclassEmails ==
  {NoEmail} \cup
  { [emailId |-> "e1", bodyChars |-> t[1], bodyDateAt |-> t[2],
     snippetChars |-> t[3], snippetDateAt |-> t[4]] :
      t \in { <<400, 120, 100, 0>>, <<400, 0, 100, 0>>, <<400, 0, 100, 20>>,
              <<0, 0, 100, 20>>, <<0, 0, 100, 0>>, <<5000, 4000, 100, 0>>,
              <<0, 0, 0, 0>> } }

ReclassInit ==
  /\ ClassifierIdle
  /\ SyncIdle
  /\ PipelineIdle
  /\ fnResult = NoRet
  /\ \E c \in ReclassCategories, k \in ReclassConfidences, d \in ReclassDeadlines,
        o \in ReclassOverrides, e \in ReclassEmails :
       fnArgs = [fn |-> "needsReclassification",
                 result |-> [emailId |-> "e1",
                             classification |-> [category |-> c, confidence |-> k,
                                                 deadline |-> d]],
                 confidenceOverrides |-> o,
                 originalEmail |-> e]

CallNeedsReclassification ==
  /\ fnArgs.fn = "needsReclassification"
  /\ fnResult = NoRet
  /\ fnResult' = Returned(needsReclassification(fnArgs.result, fnArgs.confidenceOverrides,
                                                fnArgs.originalEmail))
  /\ UNCHANGED <<fnArgs, classifierVars, pipelineVars, syncVars>>

ReclassNext == CallNeedsReclassification

SpecReclass == ReclassInit /\ [][ReclassNext]_vars

(* ---------- the second-pass decision under the self-tuned thresholds ---------- *)

\* A threshold of step 4d on the scale of the confidences, which are whole
\* hundredths here: confidence < threshold exactly if confidence is below the
\* threshold rounded up to the next hundredth
PercentCeil(t) == (t + Hundredths(1) - 1) \div Hundredths(1)

\* classifyOptions.confidenceOverrides as classifyEmails receives it
confidenceOverridesOf(recentOverrides, categoryStats) ==
  LET tuned == selfTunedThresholds(recentOverrides, categoryStats)
  IN  [c \in DOMAIN tuned |-> PercentCeil(tuned[c])]

\* the category of the result, high-stakes or not
DecisionCategories == {"approval", "reply-needed", "task", "fyi", "spam"}
DecisionConfidences == {39, 40, 59, 60, 65, 70, 74, 75, 79, 80, 89, 90, 95}

\* the user's classifications of that category in the window
DecisionStats == {st \in CategoryStats : st.total > 0}

DecisionEmails ==
  {NoEmail,
   [emailId |-> "e1", bodyChars |-> 400, bodyDateAt |-> 120, snippetChars |-> 100,
    snippetDateAt |-> 0],
   [emailId |-> "e1", bodyChars |-> 400, bodyDateAt |-> 0, snippetChars |-> 100,
    snippetDateAt |-> 0]}

DecisionInit ==
  /\ ClassifierIdle
  /\ SyncIdle
  /\ PipelineIdle
  /\ fnResult = NoRet
  /\ \E c \in DecisionCategories, k \in DecisionConfidences, d \in ReclassDeadlines,
        st \in DecisionStats, older \in OlderOverrides, e \in DecisionEmails :
       fnArgs = [fn |-> "classifyEmails",
                 result |-> [emailId |-> "e1",
                             classification |-> [category |-> c, confidence |-> k,
                                                 deadline |-> d]],
                 recentOverrides |-> older + st.overrides,
                 categoryStats |-> (c :> st),
                 originalEmail |-> e]

\* The run computes confidenceOverrides and classifyEmails decides on the
\* first-pass result with them; `static` is the decision without them
DecideWithTunedThresholds ==
  /\ fnArgs.fn = "classifyEmails"
  /\ fnResult = NoRet
  /\ LET confOverrides == confidenceOverridesOf(fnArgs.recentOverrides, fnArgs.categoryStats)
     IN  fnResult' =
           Returned([confidenceOverrides |-> confOverrides,
                     tuned |-> needsReclassification(fnArgs.result, confOverrides,
                                                     fnArgs.originalEmail),
                     static |-> needsReclassification(fnArgs.result, <<>>,
                                                      fnArgs.originalEmail)])
  /\ UNCHANGED <<fnArgs, classifierVars, pipelineVars, syncVars>>

DecisionNext == DecideWithTunedThresholds

SpecDecision == DecisionInit /\ [][DecisionNext]_vars

(* ---------- the date validation called on its own ---------- *)

MaxItems == 2       \* action items in one classification

\* receipt times of the email, in days before now
DatesReceipts == {Day(-2), Day(-20)}

\* due dates the LLM may write: none, unparseable, and days around the limits
\* (one year ahead of now, seven days before either receipt time)
DatesDeadlines ==
  {NoDate, Garbage} \cup
  {Day(n) : n \in {-30, -28, -27, -23, -12, -10, -9, -5, 0, 100, 365, 366, 400}}

DatesItems ==
  {StringItem, OtherItem} \cup
  {ObjectItem(d) : d \in {NoDate, Garbage, Day(-12), Day(-5), Day(100), Day(400)}}

DatesInit ==
  /\ ClassifierIdle
  /\ SyncIdle
  /\ PipelineIdle
  /\ fnResult = NoRet
  /\ \E r \in DatesReceipts, d \in DatesDeadlines,
        items \in {NotArray} \cup {ArrayOf(q) : q \in SeqsUpTo(DatesItems, MaxItems)} :
       fnArgs = [fn |-> "classificationDates",
                 c |-> [deadline |-> d, actionItems |-> items],
                 receivedAt |-> r]

CallClassificationDates ==
  /\ fnArgs.fn = "classificationDates"
  /\ fnResult = NoRet
  /\ fnResult' = Returned(classificationDates(fnArgs.c, fnArgs.receivedAt))
  /\ UNCHANGED <<fnArgs, classifierVars, pipelineVars, syncVars>>

DatesNext == CallClassificationDates

SpecDates == DatesInit /\ [][DatesNext]_vars

(* ---------- claims about the Classification Engine ---------- *)

Count(seq, id) == Cardinality({i \in 1..Len(seq) : seq[i].emailId = id})

\* C1: when classifyEmails returns, every input id appears exactly once across
\* results and errors together, whatever the LLM did (failed, or answered with
\* ids omitted, repeated or invented).
C1_EveryIdExactlyOnce ==
  pc = "done" =>
    \A i \in 1..Len(emails) :
      Count(results, emails[i].emailId) + Count(errors, emails[i].emailId) = 1

DelayAfter(outcomes, k) ==
  IF outcomes[k] = "429"
    THEN (CASE k = 1 -> 1000 [] k = 2 -> 2000 [] k = 3 -> 4000 [] OTHER -> -1)
  ELSE IF outcomes[k] = "error" /\ k < Len(outcomes) THEN 1000
  ELSE 0

C12_Resubmitted(rb) == UNION {Ids(rb[i]) : i \in 1..Len(rb)}

\* the first-pass classifyBatch call returns its results in this step
C12_FirstPassReturns ==
  /\ pc = "first"
  /\ pc' # "first" \/ batchIdx' # batchIdx
  /\ lastCall'.returned.kind = "return"

C12_Accepted(batchResults, batch) ==
  {batchResults[i].emailId : i \in {j \in 1..Len(batchResults) :
     ~needsReclassification(batchResults[j], options.confidenceOverrides,
                            EmailOf(batch, batchResults[j].emailId))}}

C12_Flagged(batchResults, batch) ==
  {batchResults[i].emailId : i \in {j \in 1..Len(batchResults) :
     needsReclassification(batchResults[j], options.confidenceOverrides,
                           EmailOf(batch, batchResults[j].emailId))}}

\* an email with an accepted first-pass result is not submitted again
C12_AcceptedNotResubmitted ==
  C12_FirstPassReturns =>
    C12_Resubmitted(reBatches') \cap C12_Accepted(lastCall'.returned.value, call.emails) = {}

\* only emails with a flagged first-pass result are submitted again, each once
C12_OnlyFlaggedResubmitted ==
  /\ C12_FirstPassReturns =>
       C12_Resubmitted(reBatches') \subseteq C12_Flagged(lastCall'.returned.value, call.emails)
  /\ \A i, j \in 1..Len(reBatches') : i # j => Ids(reBatches'[i]) \cap Ids(reBatches'[j]) = {}
  /\ pc' = "second" => call'.includeBody /\ Ids(call'.emails) \subseteq Ids(batches[batchIdx'])

\* what a second pass returns goes to the results; no pass follows it for these emails
C12_SecondPassIsLast ==
  (pc = "second" /\ lastCall' # lastCall) =>
    /\ \/ pc' = "second" /\ reIdx' = reIdx + 1 /\ reBatches' = reBatches /\ batchIdx' = batchIdx
       \/ pc' = "first" /\ batchIdx' = batchIdx + 1
       \/ pc' = "done"
    /\ \/ lastCall'.returned.kind = "return" /\ results' = results \o lastCall'.returned.value
       \/ lastCall'.returned.kind = "throw" /\ results' = results \o lowConfidence

\* every batch gets one first pass, and every call at most MAX_RETRIES requests
C12_BoundedRequests ==
  /\ (pc' = "first" /\ call' # call /\ call'.attempt = 0 /\ pc # "first") => batchIdx' = batchIdx + 1
  /\ batchIdx' >= batchIdx /\ batchIdx' <= Len(batches)
  /\ Len(call'.outcomes) < MAX_RETRIES
  /\ reIdx' <= Len(reBatches') \/ reBatches' = <<>>

\* C12: every email goes through at most two LLM passes: an email whose first-pass
\* result is accepted is never submitted again, only the flagged subset is
\* submitted a second time, what the second pass returns is returned without a
\* further pass, and the call returns after a bounded number of LLM requests.
C12_AtMostTwoPasses ==
  [][/\ C12_AcceptedNotResubmitted
     /\ C12_OnlyFlaggedResubmitted
     /\ C12_SecondPassIsLast
     /\ C12_BoundedRequests]_vars

\* the sender matches the non-human address patterns and is on no company domain
C22_AutomatedOutsider(e) ==
  /\ isNoreplySender(e.from)
  /\ ~(options.companyDomains # {} /\ isInternalSender(e.from, options.companyDomains))

\* the model's values of a classification, the category normalised, the flags off
C22_ModelValues(e) ==
  {[priority |-> sh.priority, category |-> normalizeCategory(sh.category),
    needsReply |-> FALSE, needsApproval |-> FALSE,
    deadline |-> validateDateString(sh.deadline, e.receivedAt),
    confidence |-> sh.confidence] : sh \in LLMShapes}

C11_HighStakes(a) ==
  /\ a.result.classification.category \in {"approval", "reply-needed", "task"}
  /\ a.result.classification.confidence < 90

C11_BelowThreshold(a) ==
  LET c == a.result.classification.category
  IN  a.result.classification.confidence <
        (IF c \in DOMAIN a.confidenceOverrides THEN a.confidenceOverrides[c]
         ELSE IF c \in DOMAIN CONFIDENCE_THRESHOLDS THEN CONFIDENCE_THRESHOLDS[c]
         ELSE 70)

\* a date-like phrase within the first 3000 characters of a text of `chars`
\* characters whose first such phrase ends at `dateAt`
C11_PreScanFinds(chars, dateAt) == dateAt > 0 /\ dateAt <= chars /\ dateAt <= 3000

C11_BodyHasDate(a) ==
  /\ a.originalEmail.emailId # Null
  /\ a.result.classification.deadline = NoDate
  /\ C11_PreScanFinds(a.originalEmail.bodyChars, a.originalEmail.bodyDateAt)

C11_BodyOrSnippetHasDate(a) ==
  /\ a.originalEmail.emailId # Null
  /\ a.result.classification.deadline = NoDate
  /\ IF a.originalEmail.bodyChars > 0
       THEN C11_PreScanFinds(a.originalEmail.bodyChars, a.originalEmail.bodyDateAt)
       ELSE C11_PreScanFinds(a.originalEmail.snippetChars, a.originalEmail.snippetDateAt)

C11_Called == fnArgs.fn = "needsReclassification" /\ fnResult.kind = "return"

\* C11 (as amended): a first-pass result is flagged for the second pass exactly
\* when (a) its category is approval, reply-needed or task and its confidence is
\* below 0.90, or (b) it has no deadline and the pre-scan of the email's body text,
\* or of its snippet when the body text is empty, found a date-like pattern in the
\* first 3000 characters, or (c) its confidence is below the category's threshold
\* (the self-tuned one if there is one, else the static one, else 0.7)
C11_FlaggedExactlyWhen ==
  C11_Called =>
    (fnResult.value <=>
       C11_HighStakes(fnArgs) \/ C11_BodyOrSnippetHasDate(fnArgs) \/ C11_BelowThreshold(fnArgs))

\* C11 as stated: condition (b) looks at the email's body only
C11_AsStated ==
  C11_Called =>
    (fnResult.value <=>
       C11_HighStakes(fnArgs) \/ C11_BodyHasDate(fnArgs) \/ C11_BelowThreshold(fnArgs))

\* a confident result without a deadline, flagged for the date in the snippet of an
\* email that has no body text
C11_Witness ==
  /\ C11_Called
  /\ fnResult.value
  /\ ~C11_HighStakes(fnArgs)
  /\ ~C11_BelowThreshold(fnArgs)
  /\ fnArgs.originalEmail.emailId # Null
  /\ fnArgs.originalEmail.bodyChars = 0
  /\ fnArgs.originalEmail.snippetDateAt > 0

(* ---------- claims about the Pipeline Orchestrator ---------- *)

Verdict(row) == <<row.priority, row.category>>

\* C2: once a classification has userOverride = true, no step of a pipeline
\* run changes its priority or category (they stand for the classified
\* fields), whenever the user's override lands relative to the run.
C2_OverrideNeverOverwritten ==
  [][proc' # proc =>
       \A id \in MailIds :
         classification[id].exists /\ classification[id].userOverride
           => Verdict(classification'[id]) = Verdict(classification[id])]_vars

\* C3: every history row of the initial step is for an email of the inputs the
\* run sent to the LLM, and every history row of the hot-thread step is for
\* an email of the staleInputs the run sent: a result for any other id writes
\* nothing.
C3_ForeignResultsNeverWritten ==
  \A h \in history :
    /\ h.reason = "initial" => h.emailId \in Range(proc[h.run].inputs)
    /\ h.reason = "hot-thread" => h.emailId \in Range(proc[h.run].staleInputs)

\* C5: a run's status starts as running, and once it is completed or failed
\* no step changes it.
C5_StatusChangesAtMostOnce ==
  [][\A r \in RunIds :
       /\ agentRuns[r].status = "none" => agentRuns'[r].status \in {"none", "running"}
       /\ agentRuns[r].status \in {"completed", "failed"}
            => agentRuns'[r].status = agentRuns[r].status]_vars

Executing == {r \in RunIds : proc[r].pc \notin {"idle", "done"}}

\* C6: at most one pipeline run of the user is executing at any time.
C6_OneRunAtATime == Cardinality(Executing) <= 1

Fresh == {r \in Running : clock - agentRuns[r].startedAt <= STALE_MINUTES}

\* C7: a manual trigger that arrives while a run started at most 10 minutes
\* ago is running ends at once with that run's id, creating no run and
\* starting no pipeline; and when a trigger creates a run after finding a
\* stale one, the stale run is no longer running.
C7_FreshRunIsReturned ==
  [][/\ (trig.pc = "idle" /\ trig' # trig /\ Fresh # {})
          => /\ trig'.pc = "idle"
             /\ trig'.response.runId \in Fresh
             /\ agentRuns' = agentRuns
             /\ proc' = proc
     /\ (trig.pc = "create" /\ trig'.pc = "idle" /\ trig.existingRun # NoRunId)
          => agentRuns[trig.existingRun].status # "running"]_vars

\* C8: no email that an active rule matches is ever among the emails a run
\* hands to the LLM, in the initial step or in the hot-thread step.
C8_RuleMatchedNeverSentToLLM ==
  \A r \in RunIds : \A id \in proc[r].llmSent :
    matchUserRules(Mail[id], userRules) = NoRule

\* C9: a run during which the Mail Source was unreachable for every account
\* ends failed with an error message, and runAgentPipeline rethrows.
C9_UnreachableMailSourceFailsRun ==
  \A r \in RunIds :
    proc[r].pc = "done" /\ proc[r].syncErrors = Cardinality(Accounts)
      => /\ agentRuns[r].status = "failed"
         /\ agentRuns[r].errorMessage # Null
         /\ proc[r].thrown

(* ---------- claims about the Priority Engine ---------- *)

PriorityReturned == fnArgs.fn = "computeEffectivePriority" /\ fnResult.kind = "return"

Unsettled(a) == ~a.options.handled /\ ~a.options.threadResolved

IsAutomated(a) == a.options.senderRelationship \in {"automated", "Automated"}

\* C13: for every storedPriority in 1..5 and every combination of deadline,
\* action-item due dates and option flags, computeEffectivePriority returns an
\* integer between 1 and 5.
C13_ReturnsOneToFive ==
  PriorityReturned => fnResult.value \in 1..5

\* C13 witness: the most urgent stored priority with every boost detected
C13_Witness ==
  /\ PriorityReturned
  /\ fnArgs.storedPriority = 1
  /\ fnArgs.options.isFollowUp /\ fnArgs.options.isEscalation
  /\ fnArgs.options.senderVelocityAnomaly
  /\ fnArgs.options.isThreadActive /\ fnArgs.options.needsReply
  /\ fnResult.value = 1

\* C14 (as amended): whenever threadResolved is true and handled is not,
\* computeEffectivePriority returns max(storedPriority, 4), hence at least 4, for
\* every storedPriority and every combination of the other options.
C14_ResolvedUnhandledAtLeastFour ==
  (PriorityReturned /\ fnArgs.options.threadResolved /\ ~fnArgs.options.handled) =>
    /\ fnResult.value = (IF fnArgs.storedPriority > 4 THEN fnArgs.storedPriority ELSE 4)
    /\ fnResult.value >= 4

\* C14 as stated: for every combination of the other options, handled included
C14_AsStated ==
  (PriorityReturned /\ fnArgs.options.threadResolved) =>
    /\ fnResult.value = (IF fnArgs.storedPriority > 4 THEN fnArgs.storedPriority ELSE 4)
    /\ fnResult.value >= 4

\* C14 witness: a resolved thread's email of stored priority 1 from a VIP sender,
\* with escalation language, a deadline tomorrow and a reply overdue
C14_Witness ==
  /\ PriorityReturned
  /\ fnArgs.options.threadResolved /\ ~fnArgs.options.handled
  /\ fnArgs.storedPriority = 1
  /\ fnArgs.options.isVipSender /\ fnArgs.options.isEscalation
  /\ fnArgs.deadline = Day(1)
  /\ fnResult.value = 4

C15_VipCase(a) == Unsettled(a) /\ a.options.isVipSender /\ ~IsAutomated(a)

C15_HasDueDate(a) ==
  \/ a.deadline # NoDate
  \/ \E i \in 1..Len(a.options.actionItems) : a.options.actionItems[i].dueDate.kind = "day"

C15_LowConfidence(a) == a.options.confidence # None /\ a.options.confidence.v < 60

C16_InBand(day) == (day > 0 /\ day <= 14) \/ (day <= 0 /\ 0 - day <= 90)

C16_DeadlineContributes(a) ==
  \/ a.deadline # NoDate /\ C16_InBand(a.deadline.day)
  \/ \E i \in 1..Len(a.options.actionItems) :
       /\ a.options.actionItems[i].dueDate.kind = "day"
       /\ C16_InBand(a.options.actionItems[i].dueDate.day)

\* C16: if confidence is below 0.6, the priority computed by the preceding rules
\* is 1 or 2, and the deadline mapping did not contribute to it (no deadline, or a
\* deadline outside every escalation band), computeEffectivePriority returns at
\* least 3.
C16_LowConfidenceAtLeastThree ==
  (PriorityReturned /\ Unsettled(fnArgs) /\ C15_LowConfidence(fnArgs)
     /\ priorityBeforeCap(fnArgs.storedPriority, fnArgs.deadline, fnArgs.options,
                          fnArgs.today) \in {1, 2}
     /\ ~C16_DeadlineContributes(fnArgs)) =>
    fnResult.value >= 3

\* the options in which nothing but due dates (and the confidence) is set
C17_DeadlineOnly(a) ==
  a.options = [NoOptions EXCEPT !.actionItems = a.options.actionItems,
                                !.confidence = a.options.confidence]

C17_DueDays(a) ==
  (IF a.deadline = NoDate THEN {} ELSE {a.deadline.day}) \cup
  {a.options.actionItems[i].dueDate.day :
     i \in {j \in 1..Len(a.options.actionItems) : a.options.actionItems[j].dueDate.kind = "day"}}

C17_Band(day, storedPriority) ==
  IF day <= 0
    THEN (IF day >= -7 THEN 1 ELSE IF day >= -30 THEN 2 ELSE IF day >= -90 THEN 3
          ELSE storedPriority)
    ELSE (IF day <= 2 THEN 1 ELSE IF day <= 6 THEN 2 ELSE IF day <= 14 THEN 3
          ELSE storedPriority)

C18_Steps(a) ==
  (IF a.options.isFollowUp THEN 1 ELSE 0) + (IF a.options.isEscalation THEN 2 ELSE 0) +
  (IF a.options.senderVelocityAnomaly THEN 1 ELSE 0) +
  (IF a.options.isThreadActive /\ a.options.needsReply THEN 1 ELSE 0)

\* nothing but the four signals is set; an email that needs a reply arrived today
C18_SignalsOnly(a) ==
  /\ Unsettled(a)
  /\ a.deadline = NoDate /\ a.options.actionItems = <<>>
  /\ a.options.receivedAt \in {NoDate, Day(0)}
  /\ ~a.options.isVipSender /\ ~a.options.isStarred
  /\ a.options.senderDomain = <<>> /\ a.options.senderRelationship = Null
  /\ ~C15_LowConfidence(a)

\* C18: the signal boosts are additive: for an email that is neither handled nor
\* thread-resolved and has no other escalation source, computeEffectivePriority
\* returns max(1, storedPriority - s), s being the sum of the steps of all detected
\* signals (follow-up 1, escalation language 2, sender velocity anomaly 1, active
\* thread awaiting reply 1).
C18_BoostsAdditive ==
  (PriorityReturned /\ C18_SignalsOnly(fnArgs)) =>
    fnResult.value = (IF fnArgs.storedPriority - C18_Steps(fnArgs) > 1
                        THEN fnArgs.storedPriority - C18_Steps(fnArgs) ELSE 1)

\* no deadline band, no age, no boost and no floor applies
C19_NothingMoreUrgent(a) ==
  /\ Unsettled(a)
  /\ ~C16_DeadlineContributes(a)
  /\ ~a.options.needsReply
  /\ C18_Steps(a) = 0
  /\ ~a.options.isVipSender /\ ~a.options.isStarred /\ a.options.senderDomain = <<>>

\* C19: for a sender whose relationship is automated, when no other rule
\* (deadline, age, boost or floor) has forced the priority to be more urgent,
\* computeEffectivePriority returns at least 4, for every storedPriority.
C19_AutomatedAtLeastFour ==
  (PriorityReturned /\ IsAutomated(fnArgs) /\ C19_NothingMoreUrgent(fnArgs)) =>
    fnResult.value >= 4

C26_FirstPassOf(batch) ==
  SeqFilter(lowConfidence,
            [r \in Range(lowConfidence) |->
               \E i \in 1..Len(batch) : batch[i].emailId = r.emailId])

\* A second-pass classifyBatch settles in this step, every attempt having failed
C26_SecondPassFailed ==
  /\ pc = "second"
  /\ lastCall' # lastCall
  /\ "ok" \notin Range(lastCall'.outcomes)

\* C26: if re-classification of the flagged subset fails (the second-pass LLM
\* requests fail on every attempt), classifyEmails returns the original
\* first-pass results for those emails.
C26_FailedSecondPassKeepsFirst ==
  [][C26_SecondPassFailed => results' = results \o C26_FirstPassOf(call.emails)]_vars

\* What the code does instead: the rule-based results of the second-pass call
C26_FailedSecondPassGivesRules ==
  [][C26_SecondPassFailed =>
       results' = results \o SeqMap(call.emails,
                    [e \in Range(call.emails) |->
                       [emailId |-> e.emailId, classification |-> classifyWithRules(e)]])]_vars

DetailReturned == fnArgs.fn = "GET" /\ fnResult.kind = "return"

\* C27: whenever the effective priority computed for an email differs from its
\* stored priority, computeEscalationReasons returns a non-empty list explaining
\* the difference; when the two are equal and the thread is not resolved, it
\* returns an empty list.
C27_ReasonsExactlyWhenDifferent ==
  DetailReturned =>
    /\ fnResult.value.effectivePriority # fnArgs.storedPriority =>
         fnResult.value.escalationReasons # <<>>
    /\ (fnResult.value.effectivePriority = fnArgs.storedPriority
        /\ ~fnArgs.options.threadResolved) =>
         fnResult.value.escalationReasons = <<>>

\* C27, its second half alone, and wider: no reasons unless the effective
\* priority is more urgent than the stored one or the thread is resolved
C27_NoReasonsUnlessEscalated ==
  (DetailReturned /\ ~fnArgs.options.threadResolved
   /\ fnResult.value.effectivePriority >= fnArgs.storedPriority) =>
     fnResult.value.escalationReasons = <<>>

\* the emails the next incremental sync of the account fetches
C28_Reachable(m) == account.syncCursor = None \/ m > account.syncCursor.v

\* C28: no fetched email is lost by a sync: after syncEmailAccount, every email
\* the Mail Source returned is either stored or still reachable by the next
\* incremental sync (the cursor is not advanced past an email whose store
\* failed).
C28_NoFetchedEmailLost ==
  syncCall.pc = "idle" =>
    \A m \in 1..source : m \in emailRows \/ C28_Reachable(m)

\* C28, its second half: the cursor is left unchanged when the fetch itself fails
C28_FetchFailureKeepsCursor ==
  [][(syncCall.pc = "fetch" /\ syncCall'.pc = "idle") => account' = account]_vars

\* C28, what the loop guarantees: a sync in which no store failed loses nothing
\* of what it fetched
C28_NothingLostWithoutStoreFailure ==
  [][(syncCall.pc = "store" /\ syncCall'.pc = "idle" /\ syncCall.errors = 0) =>
       \A k \in 1..Len(syncCall.fetched) : syncCall.fetched[k] \in emailRows']_vars

\* the runs that have passed step 6b
C29_Updated == {r \in RunIds : proc[r].pc \in {"finish", "reclassify", "restore", "done"}}

\* the distinct emails those runs have loaded
C29_Loaded == UNION {Range(proc[r].unclassified) : r \in C29_Updated}

RECURSIVE C29_Loads(_, _)
\* the emails from the sender in the load of each of the runs, added up
C29_Loads(runs, s) ==
  IF runs = {} THEN 0
  ELSE LET r == CHOOSE x \in runs : TRUE
       IN  Cardinality({id \in Range(proc[r].unclassified) : Mail[id].from = s})
             + C29_Loads(runs \ {r}, s)

\* C29: after any sequence of pipeline runs, a sender profile's totalEmails
\* equals the number of distinct emails from that sender that the runs have
\* loaded: an email that stays unclassified after a run and is loaded again by a
\* later run is still counted once.
C29_TotalCountsDistinctEmails ==
  \A s \in Senders :
    senderProfile[s] = Cardinality({id \in C29_Loaded : Mail[id].from = s})

\* What the code keeps instead: totalEmails counts an email once for every run
\* that loaded it
C29_TotalCountsEveryLoad ==
  \A s \in Senders : senderProfile[s] = C29_Loads(C29_Updated, s)

\* C29, the case of the claim has happened: a run is over, it has counted m5 and
\* left it unclassified, and the next run has started
C29_UnclassifiedAfterRun ==
  /\ proc[1].pc = "done"
  /\ senderProfile[Mail["m5"].from] = 1
  /\ ~classification["m5"].exists
  /\ proc[2].pc = "sync"

DecisionReturned == fnArgs.fn = "classifyEmails" /\ fnResult.kind = "return"

\* C30: for the categories approval, reply-needed and task, the self-tuned
\* thresholds never change the second-pass decision: for every confidence value
\* and every threshold the pipeline can compute, needsReclassification gives
\* the same answer with and without the self-tuned threshold.
C30_TunedThresholdChangesNothing ==
  (DecisionReturned
   /\ fnArgs.result.classification.category \in {"approval", "reply-needed", "task"}) =>
     fnResult.value.tuned = fnResult.value.static

\* C30 witness: task has a self-tuned threshold of 0.6, the confidence 0.7 lies
\* between it and the baseline 0.75, and the result goes to the second pass
C30_Witness ==
  /\ DecisionReturned
  /\ fnArgs.result.classification.category = "task"
  /\ "task" \in DOMAIN fnResult.value.confidenceOverrides
  /\ fnResult.value.confidenceOverrides["task"] = 60
  /\ fnArgs.result.classification.confidence = 70
  /\ fnResult.value.tuned

\* C30, the other categories: a self-tuned threshold does change the decision
C30_OtherCategoriesChange ==
  /\ DecisionReturned
  /\ fnArgs.result.classification.category \in {"fyi", "spam"}
  /\ fnResult.value.tuned # fnResult.value.static

(* ---------- claims about the date validation ---------- *)

DatesReturned == fnArgs.fn = "classificationDates" /\ fnResult.kind = "return"

\* a real date, not more than 365 days from now, not more than 7 days before receipt
C20_Valid(date, receivedAt) ==
  /\ date.kind = "day"
  /\ date.day <= 365
  /\ date.day >= receivedAt.day - 7

C20_DeadlineValid ==
  (DatesReturned /\ fnResult.value.deadline # NoDate) =>
    C20_Valid(fnResult.value.deadline, fnArgs.receivedAt)

C20_ItemDatesValid ==
  DatesReturned =>
    \A i \in 1..Len(fnResult.value.actionItems) :
      fnResult.value.actionItems[i].dueDate # NoDate =>
        C20_Valid(fnResult.value.actionItems[i].dueDate, fnArgs.receivedAt)

\* C20: every due date that survives validation in a returned classification, the
\* deadline and each action item's dueDate, parses to a real date, is not more than
\* one year in the future and not more than seven days before the email's receipt
\* time.
C20_SurvivingDatesValid ==
  C20_DeadlineValid /\ C20_ItemDatesValid

(* ---------- claims about the self-tuned thresholds ---------- *)

TuneReturned == fnArgs.fn = "selfTunedThresholds" /\ fnResult.kind = "return"

\* the threshold the classifier uses for category c, of 50400 parts
C21_PassedThreshold(c) ==
  IF c \in DOMAIN fnResult.value THEN fnResult.value[c]
  ELSE CONFIDENCE_THRESHOLDS[c] * 504

C21_RateAbove20(st) == st.overrides * 100 > 20 * st.total

\* C21: for every category whose override rate over the trailing 30-day window
\* exceeds 20%, the acceptance threshold passed to the classifier in that run is
\* strictly below the category's static baseline and is never below 0.4.
C21_TunedBelowBaseline ==
  TuneReturned =>
    \A c \in DOMAIN fnArgs.categoryStats :
      C21_RateAbove20(fnArgs.categoryStats[c]) =>
        /\ C21_PassedThreshold(c) < CONFIDENCE_THRESHOLDS[c] * 504
        /\ C21_PassedThreshold(c) >= 40 * 504

\* the thresholds that are computed lie between 0.4 and the baseline less 0.05
C21_ComputedInRange ==
  TuneReturned =>
    \A c \in DOMAIN fnResult.value :
      /\ fnResult.value[c] <= (CONFIDENCE_THRESHOLDS[c] - 5) * 504
      /\ fnResult.value[c] >= 40 * 504
      /\ C21_RateAbove20(fnArgs.categoryStats[c])

(* ---------- claims about normalizeCategory ---------- *)

\* raw is a taxonomy value or a listed alias, whatever its case and outer blanks
C23_Listed(raw) ==
  LET lower == IF raw \in DOMAIN LowerTrim THEN LowerTrim[raw] ELSE raw
  IN  lower \in ALLOWED_CATEGORIES \cup DOMAIN CATEGORY_ALIASES

\* C23: normalizeCategory is total and idempotent: for every input string it
\* returns one of the 16 taxonomy values, "fyi" for every string that is neither a
\* taxonomy value nor a listed alias, and applied to its own output it returns
\* that output unchanged.
C23_TotalAndIdempotent ==
  fnArgs.fn = "normalizeCategory" =>
    /\ fnResult.kind # "throw"
    /\ fnResult.kind = "return" =>
         /\ fnResult.value \in ALLOWED_CATEGORIES
         /\ ~C23_Listed(fnArgs.raw) => fnResult.value = "fyi"
         /\ fnArgs.pass = 2 => fnResult.value = fnArgs.raw

\* the same for the strings that name no property of Object.prototype
C23_ForOtherStrings ==
  (fnArgs.fn = "normalizeCategory" /\ fnArgs.raw \notin OBJECT_PROTOTYPE_KEYS \cup NonStrings) =>
    /\ fnResult.kind # "throw"
    /\ fnResult.kind = "return" =>
         /\ fnResult.value \in ALLOWED_CATEGORIES
         /\ ~C23_Listed(fnArgs.raw) => fnResult.value = "fyi"
         /\ fnArgs.pass = 2 => fnResult.value = fnArgs.raw

(* ---------- claims about the hot-thread step ---------- *)

\* run r is at a result of the hot-thread loop whose update finds a row
C24_Writes(r, id) ==
  /\ proc[r].pc = "restore"
  /\ proc'[r] # proc[r]
  /\ id = proc[r].results[proc[r].idx].emailId
  /\ id \in emailDb
  /\ classification[id].exists

C24_NewInThread(r, tid) ==
  Cardinality({n \in Range(proc[r].unclassified) : Mail[n].threadId = tid})

\* C24: in a run, hot-thread re-classification writes only to emails that belong
\* to a thread with at least 3 emails newly loaded in this run, were not newly
\* loaded in this run, and are not user-overridden, not handled and not
\* thread-resolved (so an older sibling marked thread-resolved in this run is not
\* re-classified).
C24_HotThreadWritesOnlyStale ==
  [][\A r \in RunIds : \A id \in MailIds :
       C24_Writes(r, id) =>
         /\ Mail[id].threadId # NoThread
         /\ C24_NewInThread(r, Mail[id].threadId) >= 3
         /\ id \notin Range(proc[r].unclassified)
         /\ ~classification[id].userOverride
         /\ ~classification[id].handled
         /\ ~classification[id].threadResolved]_vars

\* the same for the results whose id is one of the emails sent, with no override
\* made since the emails were selected
C24_OwnResultsOnlyStale ==
  [][\A r \in RunIds : \A id \in MailIds :
       (C24_Writes(r, id) /\ id \in Range(proc[r].staleInputs)) =>
         /\ Mail[id].threadId # NoThread
         /\ C24_NewInThread(r, Mail[id].threadId) >= 3
         /\ id \notin Range(proc[r].unclassified)
         /\ ~classification[id].handled
         /\ ~classification[id].threadResolved]_vars

====
